---------------------------- MODULE Spec2Model ----------------------------
(***************************************************************************)
(* A model of mcpd-proxy: the name and URI codecs (parsePrefixedName,      *)
(* parseResourceUri), the health filter (getHealthyServers), the four      *)
(* aggregate functions and the request handlers of createMcpServer.        *)
(*                                                                         *)
(* Strings are sequences of one-character strings, so that splitting,      *)
(* joining and URL parsing are computed character by character.            *)
(***************************************************************************)
EXTENDS Integers, Sequences, FiniteSets, TLC

VARIABLES
    cKind,      \* codec run: which codec is exercised, "name" or "uri"
    cServer,    \* codec run: the server id given to the encoder
    cLocal,     \* codec run: the backend-local name, or the original URI
    cFull,      \* codec run: the namespaced name / URI built by the aggregator
    cOut,       \* codec run: what the parser returned or threw
    cPc,        \* codec run: "input", "encoded" or "decoded"
    op,         \* the request being served, "none" before it arrives
    pc,         \* where the request's handler is
    resp,       \* what the handler returned or threw
    aKind,      \* aggregation: the capability kind
    aExplicit,  \* aggregation: the serverNames argument, given or not
    aServers,   \* getHealthyServers: the candidates (`servers`)
    aHealthMap, \* getHealthyServers: the health snapshot (`healthMap`)
    aHealthy,   \* aggregation: `healthyServers`
    aCalls,     \* aggregation: the backend listing calls, one per promise
    aResult,    \* aggregation: the list the aggregate function returned
    aDirCalls,  \* aggregation: how often listServers / getServerHealth were called
    aDirFailed, \* aggregation: the Directory call that rejected, "none" if none
    rName,      \* single-target request: params.name or params.uri
    rArgs,      \* single-target request: params.arguments, "absent" if not given
    rCalls,     \* single-target request: the backend operations invoked
    rOutcome,   \* single-target request: how the backend call settled
    pFn,        \* path builder run: the API_PATHS builder called, "none" if none
    pServerName, \* path builder run: its serverName argument
    pArg,       \* path builder run: its uri / promptName argument
    pPath,      \* path builder run: the path it returned
    env,        \* process.env: MCPD_ADDR and MCPD_API_KEY
    config,     \* what loadConfig returned
    uPc,        \* path builder run / loadConfig: "idle", "input" or "done"
    slots       \* concurrent requests: the locals of each handler invocation

codecVars == <<cKind, cServer, cLocal, cFull, cOut, cPc>>
reqVars == <<op, pc, resp>>
aggVars == <<aKind, aExplicit, aServers, aHealthMap, aHealthy, aCalls, aResult,
             aDirCalls, aDirFailed>>
routeVars == <<rName, rArgs, rCalls, rOutcome>>
utilVars == <<pFn, pServerName, pArg, pPath, env, config, uPc>>
vars == <<codecVars, reqVars, aggVars, routeVars, utilVars, slots>>

(***************************************************************************)
(* Bounds of the model.                                                    *)
(***************************************************************************)
MaxIdLen == 2       \* longest server id of a codec run
MaxLocalLen == 3    \* longest backend-local name / original URI of a codec run

(***************************************************************************)
(* Strings.                                                                *)
(***************************************************************************)
StringsOver(chars, lo, hi) == UNION {[1..k -> chars] : k \in lo..hi}

\* The suffix of s that starts at position i (the whole of s when i = 1).
Drop(s, i) == SubSeq(s, i, Len(s))

\* String.prototype.startsWith
StartsWith(s, prefix) ==
    /\ Len(prefix) <= Len(s)
    /\ SubSeq(s, 1, Len(prefix)) = prefix

\* String.prototype.indexOf for a separator string, 1-based, 0 when absent.
RECURSIVE IndexOfFrom(_, _, _)
IndexOfFrom(s, sep, i) ==
    IF i + Len(sep) - 1 > Len(s) THEN 0
    ELSE IF SubSeq(s, i, i + Len(sep) - 1) = sep THEN i
    ELSE IndexOfFrom(s, sep, i + 1)

IndexOf(s, sep) == IndexOfFrom(s, sep, 1)

\* The first position at or after i whose character is in `chars`, 0 when none.
RECURSIVE FirstIn(_, _, _)
FirstIn(s, chars, i) ==
    IF i > Len(s) THEN 0
    ELSE IF s[i] \in chars THEN i
    ELSE FirstIn(s, chars, i + 1)

\* The first position at or after i whose character is NOT in `chars`, 0 when none.
RECURSIVE FirstNotIn(_, _, _)
FirstNotIn(s, chars, i) ==
    IF i > Len(s) THEN 0
    ELSE IF s[i] \notin chars THEN i
    ELSE FirstNotIn(s, chars, i + 1)

\* String.prototype.split with a non-empty separator: left to right, the
\* occurrences found do not overlap; the empty string splits into [""].
RECURSIVE Split(_, _)
Split(s, sep) ==
    LET i == IndexOf(s, sep)
    IN  IF i = 0 THEN <<s>>
        ELSE <<SubSeq(s, 1, i - 1)>> \o Split(Drop(s, i + Len(sep)), sep)

\* Array.prototype.join
RECURSIVE Join(_, _)
Join(parts, sep) ==
    IF parts = <<>> THEN <<>>
    ELSE IF Len(parts) = 1 THEN parts[1]
    ELSE parts[1] \o sep \o Join(Tail(parts), sep)

SEP == <<"_", "_">>                                  \* "__"
MCPD_PREFIX == <<"m", "c", "p", "d", ":", "/", "/">>  \* "mcpd://"

(***************************************************************************)
(* parsePrefixedName(fullName, type)                                       *)
(***************************************************************************)
\* A format error that always speaks of a tool.
InvalidNameFormatOfTool(fullName, type) ==
    [ok |-> FALSE, error |-> "InvalidFormat", type |-> "tool", input |-> fullName]

InvalidNameFormat(fullName, type) ==
    [ok |-> FALSE, error |-> "InvalidFormat", type |-> type, input |-> fullName]

\* A parser that takes the second part for the name and drops the others.
parsePrefixedNameTwoParts(fullName, type) ==
    LET parts == Split(fullName, SEP)
    IN  IF Len(parts) < 2
        THEN InvalidNameFormat(fullName, type)
        ELSE [ok |-> TRUE, server |-> parts[1], name |-> parts[2]]

\* A parser that also rejects an empty server or an empty local name.
parsePrefixedNameNonEmpty(fullName, type) ==
    LET parts == Split(fullName, SEP)
    IN  IF Len(parts) < 2 \/ parts[1] = <<>> \/ Join(Tail(parts), SEP) = <<>>
        THEN InvalidNameFormat(fullName, type)
        ELSE [ok |-> TRUE, server |-> parts[1], name |-> Join(Tail(parts), SEP)]

parsePrefixedName(fullName, type) ==
    LET parts == Split(fullName, SEP)
    IN  IF Len(parts) < 2
        THEN InvalidNameFormat(fullName, type)
        ELSE [ok |-> TRUE, server |-> parts[1], name |-> Join(Tail(parts), SEP)]

\* The template `${serverName}__${tool.name}` of the aggregate functions.
NamespacedName(serverName, name) == serverName \o SEP \o name

(***************************************************************************)
(* new URL(uri), as far as parseResourceUri reads it: whether parsing      *)
(* fails, and the protocol, hostname and pathname of the parsed URL.       *)
(* "mcpd" is not a special scheme, so the host is an opaque host (not      *)
(* lower-cased) and the path is a list of segments.  The characters of     *)
(* the model are letters, digits and  _ / : ? # . + - and the space; the   *)
(* parser is modelled for these characters.                                *)
(***************************************************************************)
UpperAlpha == {"M", "C", "P", "D"}
LowerAlpha == {"a", "b", "c", "d", "f", "h", "m", "p", "s", "t", "u", "v", "q"}
AsciiAlpha == UpperAlpha \cup LowerAlpha
AsciiDigit == {"0", "1", "2", "3", "4", "5", "6", "7", "8", "9"}
SchemeChars == AsciiAlpha \cup AsciiDigit \cup {"+", "-", "."}
\* Forbidden host code points (those the model's characters can produce).
ForbiddenHostChars == {" ", "#", "/", ":", "?"}

ToLower(c) ==
    CASE c = "M" -> "m"
      [] c = "C" -> "c"
      [] c = "P" -> "p"
      [] c = "D" -> "d"
      [] OTHER -> c

LowerCase(s) == [i \in 1..Len(s) |-> ToLower(s[i])]

\* Leading and trailing spaces are removed before parsing.
RECURSIVE TrimLeft(_)
TrimLeft(s) == IF s # <<>> /\ s[1] = " " THEN TrimLeft(Tail(s)) ELSE s

RECURSIVE TrimRight(_)
TrimRight(s) ==
    IF s # <<>> /\ s[Len(s)] = " " THEN TrimRight(SubSeq(s, 1, Len(s) - 1)) ELSE s

Trim(s) == TrimRight(TrimLeft(s))

\* The path percent-encode set, on the characters of the model: the space.
RECURSIVE PercentEncodePath(_)
PercentEncodePath(s) ==
    IF s = <<>> THEN <<>>
    ELSE (IF s[1] = " " THEN <<"%", "2", "0">> ELSE <<s[1]>>)
         \o PercentEncodePath(Tail(s))

\* The path state: the raw segments are taken left to right; ".." removes the
\* last segment kept so far, "." keeps nothing, and either of them as the last
\* raw segment leaves an empty segment.
RECURSIVE PathSegments(_, _)
PathSegments(raw, kept) ==
    IF raw = <<>> THEN kept
    ELSE LET seg == raw[1]
             isLast == Len(raw) = 1
             shortened == IF kept = <<>> THEN kept ELSE SubSeq(kept, 1, Len(kept) - 1)
         IN  IF seg = <<".", ".">>
             THEN PathSegments(Tail(raw), IF isLast THEN Append(shortened, <<>>) ELSE shortened)
             ELSE IF seg = <<".">>
             THEN PathSegments(Tail(raw), IF isLast THEN Append(kept, <<>>) ELSE kept)
             ELSE PathSegments(Tail(raw), Append(kept, PercentEncodePath(seg)))

\* The pathname getter: "/" before every segment, "" for the empty path.
RECURSIVE SerializePath(_)
SerializePath(segs) ==
    IF segs = <<>> THEN <<>>
    ELSE <<"/">> \o segs[1] \o SerializePath(Tail(segs))

\* `rest` starts with "/" or is empty: the text from the path start up to the
\* query ("?") or the fragment ("#"), normalised.
PathnameOf(rest) ==
    LET stop == FirstIn(rest, {"?", "#"}, 1)
        p == IF stop = 0 THEN rest ELSE SubSeq(rest, 1, stop - 1)
    IN  IF p = <<>> THEN <<>>
        ELSE SerializePath(PathSegments(Split(Tail(p), <<"/">>), <<>>))

RECURSIVE PortValue(_, _)
PortValue(digits, acc) ==
    IF digits = <<>> THEN acc
    ELSE PortValue(Tail(digits),
                   acc * 10 + (CHOOSE d \in 0..9 :
                                  digits[1] = <<"0","1","2","3","4","5","6","7","8","9">>[d + 1]))

URLFailure == [ok |-> FALSE]

\* `hostport` is the authority (the model has no "@", so no credentials).
ParseAuthority(hostport, after) ==
    LET colon == FirstIn(hostport, {":"}, 1)
        host == IF colon = 0 THEN hostport ELSE SubSeq(hostport, 1, colon - 1)
        port == IF colon = 0 THEN <<>> ELSE Drop(hostport, colon + 1)
    IN  IF colon # 0 /\ host = <<>> THEN URLFailure
        ELSE IF FirstNotIn(port, AsciiDigit, 1) # 0 THEN URLFailure
        ELSE IF port # <<>> /\ PortValue(port, 0) > 65535 THEN URLFailure
        ELSE IF FirstIn(host, ForbiddenHostChars, 1) # 0 THEN URLFailure
        ELSE [ok |-> TRUE, protocol |-> <<"m", "c", "p", "d", ":">>,
              hostname |-> host, pathname |-> PathnameOf(after)]

\* The part of an mcpd: URL after "mcpd:".
ParseNonSpecial(rest) ==
    IF ~StartsWith(rest, <<"/">>)
    THEN \* opaque path: no host
         LET stop == FirstIn(rest, {"?", "#"}, 1)
         IN  [ok |-> TRUE, protocol |-> <<"m", "c", "p", "d", ":">>, hostname |-> <<>>,
              pathname |-> IF stop = 0 THEN rest ELSE SubSeq(rest, 1, stop - 1)]
    ELSE IF ~StartsWith(rest, <<"/", "/">>)
    THEN \* a path and no authority: no host
         [ok |-> TRUE, protocol |-> <<"m", "c", "p", "d", ":">>, hostname |-> <<>>,
          pathname |-> PathnameOf(rest)]
    ELSE LET stop == FirstIn(rest, {"/", "?", "#"}, 3)
             hostport == IF stop = 0 THEN Drop(rest, 3) ELSE SubSeq(rest, 3, stop - 1)
             after == IF stop = 0 THEN <<>> ELSE Drop(rest, stop)
         IN  ParseAuthority(hostport, after)

\* A URL of another scheme has a protocol other than "mcpd:" when it parses;
\* parseResourceUri throws the same error whether it parses or not, so only
\* its protocol is given here.
ParseURL(input) ==
    LET s == Trim(input)
        stop == FirstNotIn(s, SchemeChars, 1)
    IN  IF s = <<>> \/ s[1] \notin AsciiAlpha THEN URLFailure
        ELSE IF stop = 0 \/ s[stop] # ":" THEN URLFailure
        ELSE LET scheme == LowerCase(SubSeq(s, 1, stop - 1))
             IN  IF scheme = <<"m", "c", "p", "d">>
                 THEN ParseNonSpecial(Drop(s, stop + 1))
                 ELSE [ok |-> TRUE, protocol |-> scheme \o <<":">>,
                       hostname |-> <<>>, pathname |-> <<>>]

(***************************************************************************)
(* parseResourceUri(uri)                                                   *)
(***************************************************************************)
InvalidUriFormat(uri) == [ok |-> FALSE, error |-> "InvalidFormat", input |-> uri]
MissingPath(uri) == [ok |-> FALSE, error |-> "MissingPath", input |-> uri]

\* A parser without the check for an empty server or path.
parseResourceUriUnchecked(uri) ==
    LET url == ParseURL(uri)
    IN  IF ~url.ok THEN InvalidUriFormat(uri)
        ELSE IF url.protocol # <<"m", "c", "p", "d", ":">> THEN InvalidUriFormat(uri)
        ELSE [ok |-> TRUE, server |-> url.hostname,
              originalUri |-> IF StartsWith(url.pathname, <<"/">>)
                              THEN Drop(url.pathname, 2) ELSE url.pathname]

parseResourceUri(uri) ==
    LET url == ParseURL(uri)
    IN  IF ~url.ok THEN InvalidUriFormat(uri)
        ELSE IF url.protocol # <<"m", "c", "p", "d", ":">> THEN InvalidUriFormat(uri)
        ELSE LET server == url.hostname
                 pathname == url.pathname
                 originalUri == IF StartsWith(pathname, <<"/">>)
                                THEN Drop(pathname, 2) ELSE pathname
             IN  IF server = <<>> \/ originalUri = <<>>
                 THEN MissingPath(uri)
                 ELSE [ok |-> TRUE, server |-> server, originalUri |-> originalUri]

\* The template `mcpd://${serverName}/${resource.uri}` of aggregateResources.
NamespacedUri(serverName, uri) == MCPD_PREFIX \o serverName \o <<"/">> \o uri

(***************************************************************************)
(* The Directory and the Backends, as the proxy sees them.                 *)
(***************************************************************************)
MaxServers == 2     \* longest server list (listServers result or serverNames)
MaxItems == 2       \* longest list a backend returns

ServerIds == {<<"a">>, <<"a", "_">>}
Status == {"ok", "timeout", "unreachable", "unknown"}
Kinds == {"tools", "prompts", "resources", "resourceTemplates"}

\* What listServers can resolve with: the configured servers, each once.
DirectoryLists ==
    {l \in StringsOver(ServerIds, 0, MaxServers) :
        \A i, j \in 1..Len(l) : i # j => l[i] # l[j]}
\* What a caller can pass as serverNames.
ExplicitLists == StringsOver(ServerIds, 0, MaxServers)
\* What getServerHealth can resolve with: a status for some of the servers.
HealthMaps == UNION {[d -> Status] : d \in SUBSET ServerIds}

\* The entries a backend lists.  `uri` is the resource's uri (the uriTemplate
\* of a template); `description` is "" when the backend gives none.
Items ==
    { [name |-> <<"b">>, uri |-> <<"u">>, description |-> "d"],
      [name |-> <<"_", "b">>, uri |-> <<"v">>, description |-> ""] }
ItemLists == StringsOver(Items, 0, MaxItems)

(***************************************************************************)
(* getHealthyServers(client, serverNames)                                  *)
(***************************************************************************)
\* A filter that takes a server without a health entry for healthy.
IsHealthyUnlessReported(healthMap, name) ==
    name \in DOMAIN healthMap => healthMap[name] = "ok"

\* `health && health.status === "ok"`
IsHealthy(healthMap, name) ==
    /\ name \in DOMAIN healthMap
    /\ healthMap[name] = "ok"

\* A filter that keeps the first entry of each healthy server only.
RECURSIVE HealthyFilterDistinct(_, _)
HealthyFilterDistinct(servers, healthMap) ==
    IF servers = <<>> THEN <<>>
    ELSE LET front == SubSeq(servers, 1, Len(servers) - 1)
             last == servers[Len(servers)]
             kept == HealthyFilterDistinct(front, healthMap)
         IN  IF IsHealthy(healthMap, last) /\ \A i \in DOMAIN kept : kept[i] # last
             THEN Append(kept, last)
             ELSE kept

\* servers.filter(...): Array.prototype.filter is SelectSeq.
HealthyFilter(servers, healthMap) ==
    LET Keep(name) == IsHealthy(healthMap, name)
    IN  SelectSeq(servers, Keep)

\* A health filter that lists the servers whatever it is given.
AlwaysListServers(explicit) == TRUE

\* `serverNames ?? (await client.listServers())`: is listServers called?
NeedsListServers(explicit) == ~explicit.given

\* A health filter that takes a failed Directory call for "no servers".
OnDirectoryRejectRecovered(error) == [type |-> "result", items |-> <<>>]

\* An `await` of a Directory call that rejects is inside no try block: the
\* rejection leaves getHealthyServers, the aggregate function and the handler.
OnDirectoryReject(error) == [type |-> "exception", error |-> error]

(***************************************************************************)
(* aggregateTools / aggregatePrompts / aggregateResources /                *)
(* aggregateResourceTemplates                                              *)
(***************************************************************************)
\* healthyServers.map(async (serverName) => ...): one promise per entry, each
\* started before any is awaited.
\* A map that starts the call of the first server only.
StartFirstCallOnly(healthy) ==
    [i \in 1..(IF healthy = <<>> THEN 0 ELSE 1) |->
        [server |-> healthy[i], status |-> "pending", value |-> <<>>]]

StartCalls(healthy) ==
    [i \in 1..Len(healthy) |->
        [server |-> healthy[i], status |-> "pending", value |-> <<>>]]

\* A join that is never over.
NeverSettledNow(calls) == FALSE

\* A join that is over as soon as one call has settled.
AnySettledNow(calls) ==
    calls = <<>> \/ \E i \in 1..Len(calls) : calls[i].status # "pending"

AllSettledNow(calls) == \A i \in 1..Len(calls) : calls[i].status # "pending"

\* Promise.all: rejects as soon as one promise rejects.
PromiseAll(calls) ==
    [rejected |-> \E i \in 1..Len(calls) : calls[i].status = "rejected",
     results |-> calls]

\* Promise.allSettled never rejects: it resolves with every outcome, in the
\* order of the promises.
PromiseAllSettled(calls) == [rejected |-> FALSE, results |-> calls]

\* results.filter((result) => result.status === "fulfilled")
FulfilledResults(results) ==
    LET Keep(r) == r.status = "fulfilled"
    IN  SelectSeq(results, Keep)

\* An object built from the namespaced fields alone, without the spread.
NamespaceItemWithoutSpread(kind, serverName, item) ==
    IF kind = "resources"
    THEN [name |-> NamespacedName(serverName, item.name),
          uri |-> NamespacedUri(serverName, item.uri),
          description |-> "",
          _serverName |-> serverName,
          _originalUri |-> item.uri]
    ELSE [name |-> NamespacedName(serverName, item.name),
          uri |-> <<>>,
          description |-> ""]

\* The object built for one entry: the entry's own fields, with `name`
\* replaced, and for a resource `uri` replaced and the two fields added.
NamespaceItem(kind, serverName, item) ==
    IF kind = "resources"
    THEN [name |-> NamespacedName(serverName, item.name),
          uri |-> NamespacedUri(serverName, item.uri),
          description |-> item.description,
          _serverName |-> serverName,
          _originalUri |-> item.uri]
    ELSE [name |-> NamespacedName(serverName, item.name),
          uri |-> item.uri,
          description |-> item.description]

\* tools.map((tool) => ...)
NamespaceAll(kind, serverName, items) ==
    [i \in 1..Len(items) |-> NamespaceItem(kind, serverName, items[i])]

\* A merge that puts the entries of later results first.
RECURSIVE FlatMapResultsReversed(_, _)
FlatMapResultsReversed(kind, results) ==
    IF results = <<>> THEN <<>>
    ELSE FlatMapResultsReversed(kind, Tail(results))
         \o NamespaceAll(kind, results[1].server, results[1].value)

\* Array.prototype.flatMap over the fulfilled results.
RECURSIVE FlatMapResults(_, _)
FlatMapResults(kind, results) ==
    IF results = <<>> THEN <<>>
    ELSE NamespaceAll(kind, results[1].server, results[1].value)
         \o FlatMapResults(kind, Tail(results))

\* A merge that gives up the whole list when one server failed.
AggregateUnlessAnyRejected(kind, results) ==
    IF \E i \in 1..Len(results) : results[i].status = "rejected"
    THEN <<>>
    ELSE FlatMapResults(kind, FulfilledResults(results))

AggregateResult(kind, results) == FlatMapResults(kind, FulfilledResults(results))

(***************************************************************************)
(* The list handlers of createMcpServer: what they make of the aggregate.  *)
(***************************************************************************)
ListOps == {"tools/list", "prompts/list", "resources/list", "resources/templates/list"}

KindOf(o) ==
    CASE o = "tools/list" -> "tools"
      [] o = "prompts/list" -> "prompts"
      [] o = "resources/list" -> "resources"
      [] o = "resources/templates/list" -> "resourceTemplates"

\* `tool.description || ...`: the default text is a template with its hole.
HandlerItem(kind, item) ==
    CASE kind = "tools" ->
            [name |-> item.name,
             description |-> IF item.description = ""
                             THEN [default |-> "Tool", of |-> item.name]
                             ELSE [text |-> item.description]]
      [] kind = "resources" ->
            [uri |-> item.uri, name |-> item.name,
             description |-> IF item.description = ""
                             THEN [default |-> "Resource from", of |-> item._serverName]
                             ELSE [text |-> item.description]]
      [] kind = "resourceTemplates" ->
            [name |-> item.name, uriTemplate |-> item.uri,
             description |-> item.description]
      [] kind = "prompts" -> item

HandlerList(kind, list) == [i \in 1..Len(list) |-> HandlerItem(kind, list[i])]

\* The handler's response to a list request.
ListResponse(kind, list) == [type |-> "result", items |-> HandlerList(kind, list)]
\* What a direct caller of an aggregate function gets.
AggregateReturn(list) == [type |-> "result", items |-> list]

NoResponse == [type |-> "none"]
PcAfter(response) == IF response.type = "exception" THEN "threw" ELSE "returned"
NoHealthMap == <<>>
NotGiven == [given |-> FALSE, names |-> <<>>]

RequestIdle ==
    /\ op = "none" /\ pc = "idle" /\ resp = NoResponse
    /\ aKind = "none" /\ aExplicit = NotGiven /\ aServers = <<>>
    /\ aHealthMap = NoHealthMap /\ aHealthy = <<>> /\ aCalls = <<>>
    /\ aResult = <<>> /\ aDirCalls = [listServers |-> 0, getServerHealth |-> 0]
    /\ aDirFailed = "none"
    /\ rName = <<>> /\ rArgs = "absent" /\ rCalls = <<>> /\ rOutcome = [how |-> "none"]

CodecIdle ==
    /\ cKind = "none" /\ cServer = <<>> /\ cLocal = <<>> /\ cFull = <<>>
    /\ cOut = [ok |-> FALSE, error |-> "none"] /\ cPc = "idle"

\* No path builder has run and loadConfig has not been called.
Unset == [set |-> FALSE, value |-> ""]
NoConfig == [mcpdAddr |-> "", mcpdApiKey |-> Unset]
UtilIdle ==
    /\ pFn = "none" /\ pServerName = <<>> /\ pArg = <<>> /\ pPath = <<>>
    /\ env = [MCPD_ADDR |-> Unset, MCPD_API_KEY |-> Unset]
    /\ config = NoConfig /\ uPc = "idle"

\* The requests the server handles at the same time, and a handler that has
\* not been invoked: a handler has locals only, the module has no variable.
Requests == {1, 2}
IdleRequest ==
    [op |-> "none", pc |-> "idle", name |-> <<>>, servers |-> <<>>,
     health |-> NoHealthMap, calls |-> <<>>, outcome |-> [how |-> "none"],
     resp |-> NoResponse]
ConcIdle == slots = [q \in Requests |-> IdleRequest]

Init == CodecIdle /\ RequestIdle /\ UtilIdle /\ ConcIdle

\* getHealthyServers starts: listServers is called, or the serverNames given
\* are the candidates and getServerHealth is called.
BeginGetHealthyServers(explicit) ==
    IF NeedsListServers(explicit)
    THEN /\ pc' = "listServers"
         /\ aServers' = <<>>
         /\ aDirCalls' = [aDirCalls EXCEPT !.listServers = @ + 1]
    ELSE /\ pc' = "getServerHealth"
         /\ aServers' = explicit.names
         /\ aDirCalls' = [aDirCalls EXCEPT !.getServerHealth = @ + 1]

\* A tools/list, prompts/list, resources/list or resources/templates/list
\* request arrives: the handler calls the aggregate function without names.
ReceiveList ==
    /\ pc = "idle"
    /\ \E o \in ListOps :
         /\ op' = o
         /\ aKind' = KindOf(o)
    /\ aExplicit' = NotGiven
    /\ BeginGetHealthyServers(NotGiven)
    /\ UNCHANGED <<resp, aHealthMap, aHealthy, aCalls, aResult, aDirFailed>>
    /\ UNCHANGED <<codecVars, utilVars, slots, routeVars>>

\* An aggregate function is called directly, with or without serverNames.
CallAggregate ==
    /\ pc = "idle"
    /\ op' = "aggregate"
    /\ aKind' \in Kinds
    /\ \E e \in {NotGiven} \cup {[given |-> TRUE, names |-> l] : l \in ExplicitLists} :
         /\ aExplicit' = e
         /\ BeginGetHealthyServers(e)
    /\ UNCHANGED <<resp, aHealthMap, aHealthy, aCalls, aResult, aDirFailed>>
    /\ UNCHANGED <<codecVars, utilVars, slots, routeVars>>

ListServersResolve ==
    /\ pc = "listServers"
    /\ aServers' \in DirectoryLists
    /\ pc' = "getServerHealth"
    /\ aDirCalls' = [aDirCalls EXCEPT !.getServerHealth = @ + 1]
    /\ UNCHANGED <<op, resp, aKind, aExplicit, aHealthMap, aHealthy, aCalls, aResult,
                   aDirFailed>>
    /\ UNCHANGED <<codecVars, utilVars, slots, routeVars>>

ListServersReject ==
    /\ pc = "listServers"
    /\ aDirFailed' = "listServers"
    /\ resp' = OnDirectoryReject("listServers")
    /\ pc' = PcAfter(resp')
    /\ UNCHANGED <<op, aKind, aExplicit, aServers, aHealthMap, aHealthy, aCalls, aResult,
                   aDirCalls>>
    /\ UNCHANGED <<codecVars, utilVars, slots, routeVars>>

\* getServerHealth resolves: the candidates are filtered and every backend
\* call is started.
GetServerHealthResolve ==
    /\ pc = "getServerHealth"
    /\ aHealthMap' \in HealthMaps
    /\ aHealthy' = HealthyFilter(aServers, aHealthMap')
    /\ aCalls' = StartCalls(aHealthy')
    /\ pc' = "allSettled"
    /\ UNCHANGED <<op, resp, aKind, aExplicit, aServers, aResult, aDirCalls, aDirFailed>>
    /\ UNCHANGED <<codecVars, utilVars, slots, routeVars>>

\* A rejected getServerHealth that is called once more.
GetServerHealthRetried ==
    /\ pc = "getServerHealth"
    /\ aDirCalls.getServerHealth < 2
    /\ aDirCalls' = [aDirCalls EXCEPT !.getServerHealth = @ + 1]
    /\ UNCHANGED <<op, pc, resp, aKind, aExplicit, aServers, aHealthMap, aHealthy, aCalls,
                   aResult, aDirFailed>>
    /\ UNCHANGED <<codecVars, utilVars, slots, routeVars>>

GetServerHealthReject ==
    /\ pc = "getServerHealth"
    /\ aDirFailed' = "getServerHealth"
    /\ resp' = OnDirectoryReject("getServerHealth")
    /\ pc' = PcAfter(resp')
    /\ UNCHANGED <<op, aKind, aExplicit, aServers, aHealthMap, aHealthy, aCalls, aResult,
                   aDirCalls>>
    /\ UNCHANGED <<codecVars, utilVars, slots, routeVars>>

\* A backend's getTools / getPrompts / getResources / getResourceTemplates
\* resolves with a list.
BackendFulfil ==
    /\ pc = "allSettled"
    /\ \E i \in 1..Len(aCalls), items \in ItemLists :
         /\ aCalls[i].status = "pending"
         /\ aCalls' = [aCalls EXCEPT ![i] = [@ EXCEPT !.status = "fulfilled",
                                                      !.value = items]]
    /\ UNCHANGED <<op, pc, resp, aKind, aExplicit, aServers, aHealthMap, aHealthy,
                   aResult, aDirCalls, aDirFailed>>
    /\ UNCHANGED <<codecVars, utilVars, slots, routeVars>>

\* ... or rejects.
BackendReject ==
    /\ pc = "allSettled"
    /\ \E i \in 1..Len(aCalls) :
         /\ aCalls[i].status = "pending"
         /\ aCalls' = [aCalls EXCEPT ![i] = [@ EXCEPT !.status = "rejected"]]
    /\ UNCHANGED <<op, pc, resp, aKind, aExplicit, aServers, aHealthMap, aHealthy,
                   aResult, aDirCalls, aDirFailed>>
    /\ UNCHANGED <<codecVars, utilVars, slots, routeVars>>

\* Every promise has settled: the aggregate function returns, and a list
\* handler answers.
AggregateReturns ==
    /\ pc = "allSettled"
    /\ AllSettledNow(aCalls)
    /\ LET settled == PromiseAllSettled(aCalls)
       IN  IF settled.rejected
           THEN /\ resp' = [type |-> "exception", error |-> "backend"]
                /\ pc' = "threw"
                /\ UNCHANGED aResult
           ELSE /\ aResult' = AggregateResult(aKind, settled.results)
                /\ resp' = IF op = "aggregate" THEN AggregateReturn(aResult')
                           ELSE ListResponse(aKind, aResult')
                /\ pc' = "returned"
    /\ UNCHANGED <<op, aKind, aExplicit, aServers, aHealthMap, aHealthy, aCalls,
                   aDirCalls, aDirFailed>>
    /\ UNCHANGED <<codecVars, utilVars, slots, routeVars>>

(***************************************************************************)
(* tools/call, resources/read and prompts/get.                             *)
(***************************************************************************)
MaxReqNameLen == 4  \* longest requested tool / prompt name
MaxReqUriLen == 4   \* longest requested URI, after its scheme prefix

\* The names a tools/list or prompts/list response can hold.
ListedNames == {NamespacedName(s, i.name) : s \in ServerIds, i \in Items}
\* params.name: any short string, or a name taken from a list response.
RequestNames == StringsOver({"a", "_"}, 0, MaxReqNameLen) \cup ListedNames
\* params.uri: a scheme prefix (or none) and what follows it.
UriPrefixes ==
    {MCPD_PREFIX, <<"M", "C", "P", "D", ":", "/", "/">>, <<"m", "c", "p", "d", ":">>,
     <<"h", "t", "t", "p", ":", "/", "/">>, <<>>}
RequestUris ==
    {prefix \o body :
        prefix \in UriPrefixes,
        body \in StringsOver({"a", "/", "?"}, 0, MaxReqUriLen)}
RequestArgs == {"absent", "args"}

TypedErrorKinds ==
    {"ToolNotFoundError", "ToolExecutionError", "ServerNotFoundError",
     "ServerUnhealthyError", "ConnectionError", "AuthenticationError", "TimeoutError"}
Messages == {"m1", "m2"}
\* errorModel?.errors of a ToolExecutionError: not given, or a list.
NoFieldErrors == [given |-> FALSE, list |-> <<>>]
FieldErrors ==
    {NoFieldErrors}
    \cup {[given |-> TRUE, list |-> l] :
            l \in {<<>>,
                   <<[location |-> "body.x", message |-> "m1"]>>,
                   <<[location |-> "body.x", message |-> "m1"],
                     [location |-> "body.y", message |-> "m2"]>>}}

\* What a backend call can reject with (what an `await` can throw): an error
\* of a typed kind, another Error, a thrown value that is no object with a
\* message (a string), and null or undefined.
ThrownValues ==
    {[class |-> k, message |-> [text |-> m], errors |-> NoFieldErrors] :
        k \in (TypedErrorKinds \ {"ToolExecutionError"}) \cup {"Error"}, m \in Messages}
    \cup {[class |-> "ToolExecutionError", message |-> [text |-> m], errors |-> e] :
            m \in Messages, e \in FieldErrors}
    \cup {[class |-> "string", message |-> [text |-> "undefined"], errors |-> NoFieldErrors],
          [class |-> "nullish", message |-> [text |-> "undefined"], errors |-> NoFieldErrors]}

\* The Error thrown by parsePrefixedName / parseResourceUri.  Its message
\* holds the kind of the failure, the input and, for a name, the item type.
DecodeError(parsed) ==
    [class |-> "Error",
     message |-> [text |-> parsed.error, input |-> parsed.input,
                  type |-> IF "type" \in DOMAIN parsed THEN parsed.type ELSE "resource URI"],
     errors |-> NoFieldErrors]

ToolResults == {"r1", "r2"}
ReadResults == {<<[uri |-> "x", text |-> "t"]>>,
                <<[uri |-> "x", text |-> "t"], [uri |-> "y", blob |-> "b"]>>}
\* `messages` may be missing from the backend's result: the property then
\* reads as undefined.
PromptResults == {[description |-> "d", hasMessages |-> TRUE, messages |-> <<"msg">>],
                  [description |-> "d", hasMessages |-> FALSE, messages |-> <<"undefined">>]}

ErrorPayload(text) ==
    [type |-> "result", content |-> <<[type |-> "text", text |-> text]>>, isError |-> "true"]

\* A line that gives the location of a field error and not its message.
FormatFieldErrorLocationOnly(e) == <<"  ", e.location>>

\* `  ${e.location}: ${e.message}`, a line of the validation-errors section.
FormatFieldError(e) == <<"  ", e.location, ": ", e.message>>

\* `errors.map(...)`, the lines that are joined with "\n".
FormatFieldErrors(errors) == [i \in DOMAIN errors |-> FormatFieldError(errors[i])]

\* A catch block that puts the message of the error into every diagnostic.
TranslateWithBackendMessage(fullToolName, error) ==
    ErrorPayload([template |-> error.class, name |-> fullToolName,
                  message |-> error.message])

\* A catch block that translates the typed errors and rethrows the others.
TranslateTypedOnly(fullToolName, error) ==
    IF error.class \in TypedErrorKinds
    THEN ErrorPayload([template |-> error.class, name |-> fullToolName])
    ELSE [type |-> "exception", error |-> error]

\* The catch block of the tools/call handler.  The text is the template of
\* the branch with the values put into it.
TranslateToolError(fullToolName, error) ==
    CASE error.class = "ToolNotFoundError" ->
            ErrorPayload([template |-> "not found", name |-> fullToolName])
      [] error.class = "ToolExecutionError" ->
            ErrorPayload([template |-> "execution failed", name |-> fullToolName,
                          message |-> error.message,
                          validationErrors |->
                              error.errors.given /\ Len(error.errors.list) > 0,
                          details |-> IF error.errors.given /\ Len(error.errors.list) > 0
                                      THEN FormatFieldErrors(error.errors.list)
                                      ELSE <<>>])
      [] error.class = "ServerNotFoundError" ->
            ErrorPayload([template |-> "not available", name |-> fullToolName])
      [] error.class = "ServerUnhealthyError" ->
            ErrorPayload([template |-> "temporarily unavailable", name |-> fullToolName])
      [] error.class = "ConnectionError" ->
            ErrorPayload([template |-> "cannot connect"])
      [] error.class = "AuthenticationError" ->
            ErrorPayload([template |-> "authentication failed"])
      [] error.class = "TimeoutError" ->
            ErrorPayload([template |-> "timed out", name |-> fullToolName])
      [] error.class = "nullish" ->
            \* `(error as Error).message` on null or undefined throws a TypeError.
            [type |-> "exception",
             error |-> [class |-> "TypeError", message |-> [text |-> "read of message"],
                        errors |-> NoFieldErrors]]
      [] OTHER ->
            ErrorPayload([template |-> "error executing", name |-> fullToolName,
                          message |-> error.message])

\* The return of the tools/call handler on success.
ToolPayload(result) ==
    [type |-> "result",
     content |-> <<[type |-> "text", text |-> [template |-> "JSON", value |-> result]]>>,
     isError |-> "absent"]

\* `request.params.arguments || {}`
ToolArguments(args) == IF args = "absent" THEN "{}" ELSE args

\* A handler that answers a failure with an error payload.
PropagateAsPayload(error) ==
    ErrorPayload([template |-> "error", message |-> error.message])

\* The resources/read and prompts/get handlers have no try block: what
\* parsing or the awaited backend call throws leaves the handler.
Propagate(error) == [type |-> "exception", error |-> error]

\* A handler that returns the text entries only.
ReadPayloadTextOnly(contents) ==
    LET IsText(c) == "text" \in DOMAIN c
    IN  [type |-> "result", contents |-> SelectSeq(contents, IsText)]

\* `{ contents }`
ReadPayload(contents) == [type |-> "result", contents |-> contents]

\* A handler that returns `result.messages` as it is.
PromptPayloadWithoutDefault(result) ==
    [type |-> "result", description |-> result.description,
     messages |-> result.messages]

\* `{ description: result.description, messages: result.messages || [] }`
PromptPayload(result) ==
    [type |-> "result", description |-> result.description,
     messages |-> IF result.hasMessages THEN result.messages ELSE <<>>]

\* A tools/call handler that asks the Directory for the health of the
\* servers before it calls the backend.
ReceiveCallToolAfterHealthCheck ==
    /\ pc = "idle"
    /\ op' = "tools/call"
    /\ rName' \in RequestNames
    /\ rArgs' \in RequestArgs
    /\ LET parsed == parsePrefixedName(rName', "tool")
       IN  IF parsed.ok
           THEN /\ rCalls' = <<[server |-> parsed.server, method |-> "callTool",
                                arg |-> parsed.name, args |-> ToolArguments(rArgs')]>>
                /\ pc' = "backend"
                /\ aDirCalls' = [aDirCalls EXCEPT !.getServerHealth = @ + 1]
                /\ UNCHANGED <<resp, rOutcome>>
           ELSE /\ rOutcome' = [how |-> "decode", value |-> DecodeError(parsed)]
                /\ resp' = TranslateToolError(rName', rOutcome'.value)
                /\ pc' = PcAfter(resp')
                /\ UNCHANGED <<rCalls, aDirCalls>>
    /\ UNCHANGED <<aKind, aExplicit, aServers, aHealthMap, aHealthy, aCalls, aResult,
                   aDirFailed>>
    /\ UNCHANGED <<codecVars, utilVars, slots>>

ReceiveCallTool ==
    /\ pc = "idle"
    /\ op' = "tools/call"
    /\ rName' \in RequestNames
    /\ rArgs' \in RequestArgs
    /\ LET parsed == parsePrefixedName(rName', "tool")
       IN  IF parsed.ok
           THEN /\ rCalls' = <<[server |-> parsed.server, method |-> "callTool",
                                arg |-> parsed.name, args |-> ToolArguments(rArgs')]>>
                /\ pc' = "backend"
                /\ UNCHANGED <<resp, rOutcome>>
           ELSE /\ rOutcome' = [how |-> "decode", value |-> DecodeError(parsed)]
                /\ resp' = TranslateToolError(rName', rOutcome'.value)
                /\ pc' = PcAfter(resp')
                /\ UNCHANGED rCalls
    /\ UNCHANGED <<codecVars, utilVars, slots, aggVars>>

CallToolResolve ==
    /\ pc = "backend" /\ op = "tools/call"
    /\ \E result \in ToolResults :
         /\ rOutcome' = [how |-> "resolved", value |-> result]
         /\ resp' = ToolPayload(result)
    /\ pc' = PcAfter(resp')
    /\ UNCHANGED <<op, rName, rArgs, rCalls>>
    /\ UNCHANGED <<codecVars, utilVars, slots, aggVars>>

\* A rejected callTool that is called once more.
CallToolRetried ==
    /\ pc = "backend" /\ op = "tools/call"
    /\ Len(rCalls) < 2
    /\ rCalls' = rCalls \o rCalls
    /\ UNCHANGED <<op, pc, resp, rName, rArgs, rOutcome>>
    /\ UNCHANGED <<codecVars, utilVars, slots, aggVars>>

CallToolReject ==
    /\ pc = "backend" /\ op = "tools/call"
    /\ \E error \in ThrownValues :
         /\ rOutcome' = [how |-> "rejected", value |-> error]
         /\ resp' = TranslateToolError(rName, error)
    /\ pc' = PcAfter(resp')
    /\ UNCHANGED <<op, rName, rArgs, rCalls>>
    /\ UNCHANGED <<codecVars, utilVars, slots, aggVars>>

ReceiveReadResource ==
    /\ pc = "idle"
    /\ op' = "resources/read"
    /\ rName' \in RequestUris
    /\ rArgs' = "absent"
    /\ LET parsed == parseResourceUri(rName')
       IN  IF parsed.ok
           THEN /\ rCalls' = <<[server |-> parsed.server, method |-> "readResource",
                                arg |-> parsed.originalUri, args |-> "none"]>>
                /\ pc' = "backend"
                /\ UNCHANGED <<resp, rOutcome>>
           ELSE /\ rOutcome' = [how |-> "decode", value |-> DecodeError(parsed)]
                /\ resp' = Propagate(rOutcome'.value)
                /\ pc' = PcAfter(resp')
                /\ UNCHANGED rCalls
    /\ UNCHANGED <<codecVars, utilVars, slots, aggVars>>

ReadResourceResolve ==
    /\ pc = "backend" /\ op = "resources/read"
    /\ \E contents \in ReadResults :
         /\ rOutcome' = [how |-> "resolved", value |-> contents]
         /\ resp' = ReadPayload(contents)
    /\ pc' = PcAfter(resp')
    /\ UNCHANGED <<op, rName, rArgs, rCalls>>
    /\ UNCHANGED <<codecVars, utilVars, slots, aggVars>>

ReadResourceReject ==
    /\ pc = "backend" /\ op = "resources/read"
    /\ \E error \in ThrownValues :
         /\ rOutcome' = [how |-> "rejected", value |-> error]
         /\ resp' = Propagate(error)
    /\ pc' = PcAfter(resp')
    /\ UNCHANGED <<op, rName, rArgs, rCalls>>
    /\ UNCHANGED <<codecVars, utilVars, slots, aggVars>>

ReceiveGetPrompt ==
    /\ pc = "idle"
    /\ op' = "prompts/get"
    /\ rName' \in RequestNames
    /\ rArgs' \in RequestArgs
    /\ LET parsed == parsePrefixedName(rName', "prompt")
       IN  IF parsed.ok
           THEN /\ rCalls' = <<[server |-> parsed.server, method |-> "generatePrompt",
                                arg |-> parsed.name, args |-> rArgs']>>
                /\ pc' = "backend"
                /\ UNCHANGED <<resp, rOutcome>>
           ELSE /\ rOutcome' = [how |-> "decode", value |-> DecodeError(parsed)]
                /\ resp' = Propagate(rOutcome'.value)
                /\ pc' = PcAfter(resp')
                /\ UNCHANGED rCalls
    /\ UNCHANGED <<codecVars, utilVars, slots, aggVars>>

GeneratePromptResolve ==
    /\ pc = "backend" /\ op = "prompts/get"
    /\ \E result \in PromptResults :
         /\ rOutcome' = [how |-> "resolved", value |-> result]
         /\ resp' = PromptPayload(result)
    /\ pc' = PcAfter(resp')
    /\ UNCHANGED <<op, rName, rArgs, rCalls>>
    /\ UNCHANGED <<codecVars, utilVars, slots, aggVars>>

GeneratePromptReject ==
    /\ pc = "backend" /\ op = "prompts/get"
    /\ \E error \in ThrownValues :
         /\ rOutcome' = [how |-> "rejected", value |-> error]
         /\ resp' = Propagate(error)
    /\ pc' = PcAfter(resp')
    /\ UNCHANGED <<op, rName, rArgs, rCalls>>
    /\ UNCHANGED <<codecVars, utilVars, slots, aggVars>>

(***************************************************************************)
(* ping                                                                    *)
(***************************************************************************)
\* `return {}`
PingPayload == [type |-> "result", ack |-> "{}"]

\* A ping handler that acknowledges whatever the Directory call did.
PingFailureSwallowed(error) == [type |-> "result", ack |-> "{}"]

\* `await mcpdClient.getServerHealth()` is inside no try block: what it
\* throws leaves the handler.
PingFailure(error) == [type |-> "exception", error |-> error]

\* A ping request arrives: the handler calls getServerHealth.
ReceivePing ==
    /\ pc = "idle"
    /\ op' = "ping"
    /\ pc' = "pingHealth"
    /\ aDirCalls' = [aDirCalls EXCEPT !.getServerHealth = @ + 1]
    /\ UNCHANGED <<resp, aKind, aExplicit, aServers, aHealthMap, aHealthy, aCalls,
                   aResult, aDirFailed>>
    /\ UNCHANGED <<codecVars, utilVars, slots, routeVars>>

\* The health map the call resolves with is not read.
PingHealthResolve ==
    /\ pc = "pingHealth" /\ op = "ping"
    /\ \E healthMap \in HealthMaps :
         /\ rOutcome' = [how |-> "resolved", value |-> "healthMap"]
         /\ resp' = PingPayload
    /\ pc' = PcAfter(resp')
    /\ UNCHANGED <<op, rName, rArgs, rCalls>>
    /\ UNCHANGED <<codecVars, utilVars, slots, aggVars>>

PingHealthReject ==
    /\ pc = "pingHealth" /\ op = "ping"
    /\ \E error \in ThrownValues :
         /\ rOutcome' = [how |-> "rejected", value |-> error]
         /\ resp' = PingFailure(error)
    /\ aDirFailed' = "getServerHealth"
    /\ pc' = PcAfter(resp')
    /\ UNCHANGED <<op, rName, rArgs, rCalls>>
    /\ UNCHANGED <<codecVars, utilVars, slots, aKind, aExplicit, aServers, aHealthMap, aHealthy, aCalls,
                   aResult, aDirCalls>>

(***************************************************************************)
(* Codec runs: the aggregator builds a namespaced name or URI from a       *)
(* server id and a backend-local name or URI, and the parser decodes it.   *)
(***************************************************************************)
NameChars == {"a", "_"}
UriChars == {"a", "/", ":", "?", "#", ".", " "}

\* Server ids start with a letter.
CodecServerIds == {s \in StringsOver(NameChars, 1, MaxIdLen) : s[1] = "a"}
LocalNames == StringsOver(NameChars, 1, MaxLocalLen)
OriginalUris == StringsOver(UriChars, 1, MaxLocalLen)

NoResult == [ok |-> FALSE, error |-> "none"]

CodecInit ==
    /\ cKind \in {"name", "uri"}
    /\ cServer \in CodecServerIds
    /\ cLocal \in (IF cKind = "name" THEN LocalNames ELSE OriginalUris)
    /\ cFull = <<>>
    /\ cOut = NoResult
    /\ cPc = "input"
    /\ RequestIdle /\ UtilIdle /\ ConcIdle

\* aggregateTools / aggregatePrompts / aggregateResourceTemplates: the name.
EncodeName ==
    /\ cKind = "name" /\ cPc = "input"
    /\ cFull' = NamespacedName(cServer, cLocal)
    /\ cPc' = "encoded"
    /\ UNCHANGED <<cKind, cServer, cLocal, cOut>>
    /\ UNCHANGED <<reqVars, aggVars, routeVars, utilVars, slots>>

\* tools/call and prompts/get: the name is decoded.
DecodeName ==
    /\ cKind = "name" /\ cPc = "encoded"
    /\ \E type \in {"tool", "prompt"} : cOut' = parsePrefixedName(cFull, type)
    /\ cPc' = "decoded"
    /\ UNCHANGED <<cKind, cServer, cLocal, cFull>>
    /\ UNCHANGED <<reqVars, aggVars, routeVars, utilVars, slots>>

\* aggregateResources: the uri.
EncodeUri ==
    /\ cKind = "uri" /\ cPc = "input"
    /\ cFull' = NamespacedUri(cServer, cLocal)
    /\ cPc' = "encoded"
    /\ UNCHANGED <<cKind, cServer, cLocal, cOut>>
    /\ UNCHANGED <<reqVars, aggVars, routeVars, utilVars, slots>>

\* resources/read: the uri is decoded.
DecodeUri ==
    /\ cKind = "uri" /\ cPc = "encoded"
    /\ cOut' = parseResourceUri(cFull)
    /\ cPc' = "decoded"
    /\ UNCHANGED <<cKind, cServer, cLocal, cFull>>
    /\ UNCHANGED <<reqVars, aggVars, routeVars, utilVars, slots>>

CodecNext == EncodeName \/ DecodeName \/ EncodeUri \/ DecodeUri

SpecCodec == CodecInit /\ [][CodecNext]_vars

(***************************************************************************)
(* API_PATHS (apiPaths.ts) and loadConfig (config.ts).                     *)
(***************************************************************************)
MaxPathArgLen == 2  \* longest argument of a path builder

\* The characters of the arguments: a letter, an unescaped mark and three
\* characters that encodeURIComponent escapes.
PathArgChars == {"a", "!", "/", " ", "?"}
PathArgs == StringsOver(PathArgChars, 0, MaxPathArgLen)

\* A component left as it is.
RawComponent(str) == str

\* encodeURIComponent on the characters of the model: letters, digits and
\* - _ . ! ~ * ' ( ) are kept, every other character becomes the escapes of
\* its UTF-8 bytes.
RECURSIVE encodeURIComponent(_)
encodeURIComponent(str) ==
    IF str = <<>> THEN <<>>
    ELSE (CASE str[1] = "/" -> <<"%", "2", "F">>
            [] str[1] = " " -> <<"%", "2", "0">>
            [] str[1] = "?" -> <<"%", "3", "F">>
            [] OTHER -> <<str[1]>>)
         \o encodeURIComponent(Tail(str))

API_BASE == <<"/", "a", "p", "i", "/", "v", "1">>
SERVERS_BASE == API_BASE \o <<"/", "s", "e", "r", "v", "e", "r", "s">>
RESOURCES == <<"/", "r", "e", "s", "o", "u", "r", "c", "e", "s">>
CONTENT_URI == <<"/", "c", "o", "n", "t", "e", "n", "t", "?", "u", "r", "i", "=">>
PROMPTS == <<"/", "p", "r", "o", "m", "p", "t", "s">>

SERVER_RESOURCES(serverName) ==
    SERVERS_BASE \o <<"/">> \o encodeURIComponent(serverName) \o RESOURCES

RESOURCE_CONTENT(serverName, uri) ==
    SERVERS_BASE \o <<"/">> \o encodeURIComponent(serverName) \o RESOURCES
        \o CONTENT_URI \o encodeURIComponent(uri)

SERVER_PROMPTS(serverName) ==
    SERVERS_BASE \o <<"/">> \o encodeURIComponent(serverName) \o PROMPTS

PROMPT_GET(serverName, promptName) ==
    SERVERS_BASE \o <<"/">> \o encodeURIComponent(serverName) \o PROMPTS
        \o <<"/">> \o encodeURIComponent(promptName)

PathBuilders == {"SERVER_RESOURCES", "RESOURCE_CONTENT", "SERVER_PROMPTS", "PROMPT_GET"}
TwoArgBuilders == {"RESOURCE_CONTENT", "PROMPT_GET"}

\* An environment variable is unset, or set to a string (the empty one too).
EnvAddrs == {Unset, [set |-> TRUE, value |-> ""],
             [set |-> TRUE, value |-> "http://example.com:9000"]}
EnvKeys == {Unset, [set |-> TRUE, value |-> ""], [set |-> TRUE, value |-> "test-api-key"]}

\* `value ?? fallback`: the fallback for an unset variable only.
NullishDefault(value, fallback) == IF value.set THEN value.value ELSE fallback

\* `value || fallback`: the fallback for an unset variable and for "".
OrDefault(value, fallback) ==
    IF value.set /\ value.value # "" THEN value.value ELSE fallback

loadConfig(environment) ==
    [mcpdAddr |-> OrDefault(environment.MCPD_ADDR, "http://localhost:8090"),
     mcpdApiKey |-> environment.MCPD_API_KEY]

\* The inputs of a path builder run, or the environment of the process.
UtilInit ==
    /\ CodecIdle /\ RequestIdle /\ ConcIdle
    /\ pPath = <<>> /\ config = NoConfig /\ uPc = "input"
    /\ \/ /\ pFn \in PathBuilders
          /\ pServerName \in PathArgs
          /\ pArg \in (IF pFn \in TwoArgBuilders THEN PathArgs ELSE {<<>>})
          /\ env = [MCPD_ADDR |-> Unset, MCPD_API_KEY |-> Unset]
       \/ /\ pFn = "loadConfig" /\ pServerName = <<>> /\ pArg = <<>>
          /\ env \in [MCPD_ADDR : EnvAddrs, MCPD_API_KEY : EnvKeys]

BuildPath ==
    /\ uPc = "input" /\ pFn \in PathBuilders
    /\ pPath' = CASE pFn = "SERVER_RESOURCES" -> SERVER_RESOURCES(pServerName)
                  [] pFn = "RESOURCE_CONTENT" -> RESOURCE_CONTENT(pServerName, pArg)
                  [] pFn = "SERVER_PROMPTS" -> SERVER_PROMPTS(pServerName)
                  [] pFn = "PROMPT_GET" -> PROMPT_GET(pServerName, pArg)
    /\ uPc' = "done"
    /\ UNCHANGED <<pFn, pServerName, pArg, env, config>>
    /\ UNCHANGED <<codecVars, reqVars, aggVars, routeVars, slots>>

LoadConfig ==
    /\ uPc = "input" /\ pFn = "loadConfig"
    /\ config' = loadConfig(env)
    /\ uPc' = "done"
    /\ UNCHANGED <<pFn, pServerName, pArg, pPath, env>>
    /\ UNCHANGED <<codecVars, reqVars, aggVars, routeVars, slots>>

UtilNext == BuildPath \/ LoadConfig

SpecUtil == UtilInit /\ [][UtilNext]_vars

(***************************************************************************)
(* Concurrent requests: each handler invocation is an async function with  *)
(* its own locals; the handlers share the client and nothing else.         *)
(***************************************************************************)
\* What the Directory and the backends answer to the calls of a request.
ConcHealthMaps == {h \in HealthMaps : \A n \in DOMAIN h : h[n] \in {"ok", "timeout"}}
ConcItemLists == {l \in ItemLists : Len(l) <= 1}
ConcNames == {NamespacedName(<<"a">>, <<"b">>), <<"a">>}
ConcErrors ==
    {e \in ThrownValues : e.class \in {"ToolNotFoundError", "Error"} /\ e.message.text = "m1"}

\* A module-level health map, the one of the first request, read by all.
SharedHealthMap(all, q) == all[1].health

\* `const healthMap = await client.getServerHealth()`: a local of the call.
OwnHealthMap(all, q) == all[q].health

ConcOthersUnchanged == UNCHANGED <<codecVars, reqVars, aggVars, routeVars, utilVars>>

ConcReceiveList(q) ==
    /\ slots[q].pc = "idle"
    /\ slots' = [slots EXCEPT ![q].op = "tools/list", ![q].pc = "listServers"]
    /\ ConcOthersUnchanged

ConcReceiveCallTool(q) ==
    /\ slots[q].pc = "idle"
    /\ \E fullToolName \in ConcNames :
         LET parsed == parsePrefixedName(fullToolName, "tool")
             response == TranslateToolError(fullToolName, DecodeError(parsed))
         IN  slots' = IF parsed.ok
                      THEN [slots EXCEPT ![q].op = "tools/call", ![q].name = fullToolName,
                                         ![q].calls = <<[server |-> parsed.server,
                                                         status |-> "pending",
                                                         value |-> <<>>]>>,
                                         ![q].pc = "backend"]
                      ELSE [slots EXCEPT ![q].op = "tools/call", ![q].name = fullToolName,
                                         ![q].outcome = [how |-> "decode"],
                                         ![q].resp = response,
                                         ![q].pc = PcAfter(response)]
    /\ ConcOthersUnchanged

ConcListServersResolve(q) ==
    /\ slots[q].pc = "listServers"
    /\ \E servers \in DirectoryLists :
         slots' = [slots EXCEPT ![q].servers = servers, ![q].pc = "getServerHealth"]
    /\ ConcOthersUnchanged

ConcListServersReject(q) ==
    /\ slots[q].pc = "listServers"
    /\ slots' = [slots EXCEPT ![q].outcome = [how |-> "listServers"],
                              ![q].resp = OnDirectoryReject("listServers"),
                              ![q].pc = PcAfter(OnDirectoryReject("listServers"))]
    /\ ConcOthersUnchanged

ConcGetServerHealthResolve(q) ==
    /\ slots[q].pc = "getServerHealth"
    /\ \E healthMap \in ConcHealthMaps :
         LET bound == [slots EXCEPT ![q].health = healthMap]
             healthy == HealthyFilter(slots[q].servers, OwnHealthMap(bound, q))
         IN  slots' = [bound EXCEPT ![q].calls = StartCalls(healthy),
                                    ![q].pc = "allSettled"]
    /\ ConcOthersUnchanged

ConcGetServerHealthReject(q) ==
    /\ slots[q].pc = "getServerHealth"
    /\ slots' = [slots EXCEPT ![q].outcome = [how |-> "getServerHealth"],
                              ![q].resp = OnDirectoryReject("getServerHealth"),
                              ![q].pc = PcAfter(OnDirectoryReject("getServerHealth"))]
    /\ ConcOthersUnchanged

ConcBackendFulfil(q) ==
    /\ slots[q].pc = "allSettled"
    /\ \E i \in DOMAIN slots[q].calls, items \in ConcItemLists :
         /\ slots[q].calls[i].status = "pending"
         /\ slots' = [slots EXCEPT ![q].calls[i] = [@ EXCEPT !.status = "fulfilled",
                                                             !.value = items]]
    /\ ConcOthersUnchanged

ConcBackendReject(q) ==
    /\ slots[q].pc = "allSettled"
    /\ \E i \in DOMAIN slots[q].calls :
         /\ slots[q].calls[i].status = "pending"
         /\ slots' = [slots EXCEPT ![q].calls[i].status = "rejected"]
    /\ ConcOthersUnchanged

ConcAggregateReturns(q) ==
    /\ slots[q].pc = "allSettled"
    /\ AllSettledNow(slots[q].calls)
    /\ LET settled == PromiseAllSettled(slots[q].calls)
           response == ListResponse("tools", AggregateResult("tools", settled.results))
       IN  slots' = [slots EXCEPT ![q].outcome = [how |-> "resolved"],
                                  ![q].resp = response,
                                  ![q].pc = PcAfter(response)]
    /\ ConcOthersUnchanged

ConcCallToolResolve(q) ==
    /\ slots[q].pc = "backend"
    /\ \E result \in ToolResults :
         slots' = [slots EXCEPT ![q].calls[1] = [@ EXCEPT !.status = "fulfilled",
                                                         !.value = <<result>>],
                                ![q].outcome = [how |-> "resolved"],
                                ![q].resp = ToolPayload(result),
                                ![q].pc = PcAfter(ToolPayload(result))]
    /\ ConcOthersUnchanged

ConcCallToolReject(q) ==
    /\ slots[q].pc = "backend"
    /\ \E error \in ConcErrors :
         LET response == TranslateToolError(slots[q].name, error)
         IN  slots' = [slots EXCEPT ![q].calls[1] = [@ EXCEPT !.status = "rejected",
                                                             !.value = <<error>>],
                                    ![q].outcome = [how |-> "rejected"],
                                    ![q].resp = response,
                                    ![q].pc = PcAfter(response)]
    /\ ConcOthersUnchanged

ConcInit == CodecIdle /\ RequestIdle /\ UtilIdle /\ ConcIdle

ConcNext ==
    \E q \in Requests :
        \/ ConcReceiveList(q)
        \/ ConcReceiveCallTool(q)
        \/ ConcListServersResolve(q)
        \/ ConcListServersReject(q)
        \/ ConcGetServerHealthResolve(q)
        \/ ConcGetServerHealthReject(q)
        \/ ConcBackendFulfil(q)
        \/ ConcBackendReject(q)
        \/ ConcAggregateReturns(q)
        \/ ConcCallToolResolve(q)
        \/ ConcCallToolReject(q)

SpecConc == ConcInit /\ [][ConcNext]_vars

Next ==
    \/ ReceiveList
    \/ CallAggregate
    \/ ListServersResolve
    \/ ListServersReject
    \/ GetServerHealthResolve
    \/ GetServerHealthReject
    \/ BackendFulfil
    \/ BackendReject
    \/ AggregateReturns
    \/ ReceiveCallTool
    \/ CallToolResolve
    \/ CallToolReject
    \/ ReceiveReadResource
    \/ ReadResourceResolve
    \/ ReadResourceReject
    \/ ReceiveGetPrompt
    \/ GeneratePromptResolve
    \/ GeneratePromptReject
    \/ ReceivePing
    \/ PingHealthResolve
    \/ PingHealthReject

Spec == Init /\ [][Next]_vars

\* The collaborators are fair: a Directory call that was made settles, a
\* backend call that is pending settles, and the event loop resumes an
\* aggregate function whose awaited promise has settled.
SpecFair ==
    /\ Init /\ [][Next]_vars
    /\ WF_vars(ListServersResolve \/ ListServersReject)
    /\ WF_vars(GetServerHealthResolve \/ GetServerHealthReject)
    /\ WF_vars(BackendFulfil \/ BackendReject)
    /\ WF_vars(AggregateReturns)

(***************************************************************************)
(* Claims.                                                                 *)
(***************************************************************************)
HasSeparator(s) == IndexOf(s, SEP) # 0

\* C1: for every server id without "__" and every local name, decoding the
\* aggregated name `${server}__${local}` returns exactly {server, name: local}.
C1_NameRoundTrip ==
    (cKind = "name" /\ cPc = "decoded" /\ ~HasSeparator(cServer))
        => cOut = [ok |-> TRUE, server |-> cServer, name |-> cLocal]

\* C2: for every server id and every original URI, decoding the aggregated
\* URI `mcpd://${server}/${uri}` returns exactly {server, originalUri: uri}.
C2_UriRoundTrip ==
    (cKind = "uri" /\ cPc = "decoded")
        => cOut = [ok |-> TRUE, server |-> cServer, originalUri |-> cLocal]

AggregateOps == ListOps \cup {"aggregate"}
SingleTargetOps == {"tools/call", "resources/read", "prompts/get"}

Range(s) == {s[i] : i \in DOMAIN s}
NoDuplicates(s) == \A i, j \in DOMAIN s : i # j => s[i] # s[j]
Names(items) == [i \in DOMAIN items |-> items[i].name]
Uris(items) == [i \in DOMAIN items |-> items[i].uri]

\* C3: after an aggregation over distinct server ids without "__", each
\* backend list being free of duplicate names (and URIs), no two merged items
\* share a name, and no two merged resources share a uri.
C3_GloballyUnique ==
    (/\ op \in AggregateOps /\ pc = "returned"
     /\ NoDuplicates(aServers)
     /\ \A s \in Range(aServers) : ~HasSeparator(s)
     /\ \A i \in DOMAIN aCalls :
            NoDuplicates(Names(aCalls[i].value)) /\ NoDuplicates(Uris(aCalls[i].value)))
        => /\ NoDuplicates(Names(aResult))
           /\ aKind = "resources" => NoDuplicates(Uris(aResult))

\* C4: a backend listing call that rejects never makes an aggregation fail:
\* whatever subset of the calls rejects, the aggregation returns a list, and
\* with no eligible server that list is empty.
C4_BackendFailuresNeverFail ==
    op \in AggregateOps =>
        /\ (pc = "threw" => aDirFailed # "none")
        /\ (pc = "returned" =>
                /\ resp.type = "result"
                /\ Len(resp.items) = Len(aResult)
                /\ aHealthy = <<>> => aResult = <<>>)

C4_Witness ==
    /\ op \in AggregateOps /\ pc = "returned"
    /\ \E i, j \in DOMAIN aCalls :
          /\ aCalls[i].status = "rejected"
          /\ aCalls[j].status = "fulfilled" /\ Len(aCalls[j].value) = 1
    /\ Len(aResult) = 1

\* The entry the merged list is to hold for `item` of `server`.
ExpectedItem(kind, server, item) ==
    IF kind = "resources"
    THEN [name |-> server \o <<"_", "_">> \o item.name,
          uri |-> <<"m", "c", "p", "d", ":", "/", "/">> \o server \o <<"/">> \o item.uri,
          description |-> item.description,
          _serverName |-> server, _originalUri |-> item.uri]
    ELSE [name |-> server \o <<"_", "_">> \o item.name,
          uri |-> item.uri, description |-> item.description]

\* The (call, position) pairs of the entries returned by fulfilled calls.
ReturnedEntries ==
    {<<i, j>> \in (DOMAIN aCalls) \X (1..MaxItems) :
        aCalls[i].status = "fulfilled" /\ j <= Len(aCalls[i].value)}

HealthyReturned == op \in AggregateOps /\ pc \in {"allSettled", "returned"}
OkPositions == {i \in DOMAIN aServers :
                  aServers[i] \in DOMAIN aHealthMap /\ aHealthMap[aServers[i]] = "ok"}

\* C6: getHealthyServers returns exactly the candidates whose status in the
\* snapshot is "ok", in candidate order: a candidate with another status or
\* with no entry is left out, and nothing but candidates is returned.
C6_ExactlyOkCandidates ==
    HealthyReturned =>
        /\ Len(aHealthy) = Cardinality(OkPositions)
        /\ \E f \in [DOMAIN aHealthy -> OkPositions] :
              /\ \A k, l \in DOMAIN aHealthy : k < l => f[k] < f[l]
              /\ \A k \in DOMAIN aHealthy : aHealthy[k] = aServers[f[k]]

C6_Witness ==
    /\ HealthyReturned
    /\ Len(aServers) = 2 /\ aServers[1] # aServers[2]
    /\ aServers[1] \in DOMAIN aHealthMap /\ aHealthMap[aServers[1]] = "timeout"
    /\ aHealthy = <<aServers[2]>>

\* C7: with an explicit server list, listServers is never called and the list
\* is the candidate set, yet the candidates are still filtered by health: a
\* listed server whose status is not "ok" is not returned.
C7_ExplicitListStillFiltered ==
    (op \in AggregateOps /\ aExplicit.given) =>
        /\ aDirCalls.listServers = 0
        /\ pc # "listServers"
        /\ aServers = aExplicit.names
        /\ HealthyReturned =>
              \A s \in Range(aExplicit.names) :
                 (s \notin DOMAIN aHealthMap \/ aHealthMap[s] # "ok")
                    => s \notin Range(aHealthy)

C7_Witness ==
    /\ op \in AggregateOps /\ aExplicit.given /\ pc = "returned"
    /\ aDirCalls.listServers = 0
    /\ \E s \in Range(aExplicit.names) :
          /\ s \in DOMAIN aHealthMap /\ aHealthMap[s] = "unreachable"
          /\ s \notin Range(aHealthy)
    /\ aHealthy # <<>>

\* C8: tools/call never raises: for every name and every outcome of the
\* backend call the handler returns a content payload, whose error flag is set
\* exactly when decoding or the backend call failed.
C8_CallToolNeverRaises ==
    op = "tools/call" =>
        /\ pc # "threw"
        /\ pc = "returned" =>
              /\ resp.type = "result"
              /\ Len(resp.content) = 1
              /\ resp.isError = "true" <=> rOutcome.how \in {"decode", "rejected"}

C11_EndToEndRouting ==
    /\ (op = "tools/list" /\ pc = "returned") =>
          \A i \in DOMAIN aCalls :
             (aCalls[i].status = "fulfilled" /\ ~HasSeparator(aCalls[i].server)) =>
                \A j \in DOMAIN aCalls[i].value :
                   \E k \in DOMAIN resp.items :
                      resp.items[k].name
                         = aCalls[i].server \o <<"_", "_">> \o aCalls[i].value[j].name
    /\ (op = "tools/call" /\ pc # "idle") =>
          \A S \in ServerIds, T \in Items :
             (~HasSeparator(S) /\ rName = S \o <<"_", "_">> \o T.name) =>
                /\ rCalls = <<[server |-> S, method |-> "callTool", arg |-> T.name,
                               args |-> IF rArgs = "absent" THEN "{}" ELSE rArgs]>>
                /\ rOutcome.how = "resolved" =>
                      /\ pc = "returned"
                      /\ resp = [type |-> "result",
                                 content |-> <<[type |-> "text",
                                                text |-> [template |-> "JSON",
                                                          value |-> rOutcome.value]]>>,
                                 isError |-> "absent"]

\* The position of the first "__" in s, 0 if there is none.
FirstSeparator(s) ==
    IF \E i \in 1..(Len(s) - 1) : s[i] = "_" /\ s[i + 1] = "_"
    THEN CHOOSE i \in 1..(Len(s) - 1) :
            /\ s[i] = "_" /\ s[i + 1] = "_"
            /\ \A j \in 1..(i - 1) : ~(s[j] = "_" /\ s[j + 1] = "_")
    ELSE 0

NameOps == {"tools/call", "prompts/get"}

\* C12: parsePrefixedName splits on the first "__": for every requested name
\* that holds "__", the server is the text before the first "__" and the name
\* is everything after it, unmodified.
C12_SplitsOnFirstSeparator ==
    (op \in NameOps /\ FirstSeparator(rName) # 0) =>
        LET i == FirstSeparator(rName)
        IN  /\ Len(rCalls) = 1
            /\ rCalls[1].server = SubSeq(rName, 1, i - 1)
            /\ rCalls[1].arg = SubSeq(rName, i + 2, Len(rName))

\* A name with a second "__" after the first: the name part keeps it.
C12_Witness ==
    /\ op = "prompts/get" /\ pc = "backend"
    /\ rName = <<"a", "_", "_", "_", "_", "b">>
    /\ rCalls[1].server = <<"a">>
    /\ rCalls[1].arg = <<"_", "_", "b">>

\* C13: parsePrefixedName fails with a format error that names the item kind
\* (tool for tools/call, prompt for prompts/get) on every requested name
\* without "__", the empty name and names with single underscores included.
C13_NoSeparatorIsFormatError ==
    (op \in NameOps /\ FirstSeparator(rName) = 0) =>
        /\ rOutcome.how = "decode"
        /\ rOutcome.value.class = "Error"
        /\ rOutcome.value.message.text = "InvalidFormat"
        /\ rOutcome.value.message.input = rName
        /\ rOutcome.value.message.type = (IF op = "tools/call" THEN "tool" ELSE "prompt")

C13_Witness ==
    /\ op = "prompts/get" /\ pc = "threw"
    /\ rName = <<"a", "_", "a">>
    /\ resp.type = "exception"
    /\ resp.error.message.text = "InvalidFormat"
    /\ resp.error.message.type = "prompt"

DecodeFailedWith(kind) ==
    /\ rOutcome.how = "decode"
    /\ rOutcome.value.message.text = kind
    /\ rCalls = <<>>

\* C14: parseResourceUri rejects a malformed URI with the right kind of
\* error: the format error for every input that does not start with
\* "mcpd://", the missing-path error for "mcpd://" followed by a server and
\* no "/" and for "mcpd:///" followed by a path.
C14_MalformedUriErrorKinds ==
    op = "resources/read" =>
        /\ ~StartsWith(rName, MCPD_PREFIX) => DecodeFailedWith("InvalidFormat")
        /\ (StartsWith(rName, MCPD_PREFIX)
              /\ FirstIn(rName, {"/", "?"}, Len(MCPD_PREFIX) + 1) = 0
              /\ Len(rName) > Len(MCPD_PREFIX))
             => DecodeFailedWith("MissingPath")
        /\ StartsWith(rName, MCPD_PREFIX \o <<"/">>) => DecodeFailedWith("MissingPath")

\* C15: whenever parseResourceUri returns without error, the server and the
\* original URI it returns are both non-empty; "mcpd://" followed by a server
\* and a single "/" fails instead of yielding an empty original URI.
C15_AcceptedPartsNonEmpty ==
    op = "resources/read" =>
        /\ rOutcome.how # "decode" =>
              /\ Len(rCalls) = 1
              /\ rCalls[1].server # <<>>
              /\ rCalls[1].arg # <<>>
        /\ (StartsWith(rName, MCPD_PREFIX)
              /\ Len(rName) > Len(MCPD_PREFIX) + 1
              /\ FirstIn(rName, {"/", "?"}, Len(MCPD_PREFIX) + 1) = Len(rName)
              /\ rName[Len(rName)] = "/")
             => (rOutcome.how = "decode" /\ pc = "threw")

\* An accepted URI whose path after the first "/" starts with another "/".
C15_Witness ==
    /\ op = "resources/read" /\ pc = "backend"
    /\ rName = MCPD_PREFIX \o <<"a", "/", "/", "a">>
    /\ rCalls[1].server = <<"a">>
    /\ rCalls[1].arg = <<"/", "a">>

\* C16: parseResourceUri agrees with the prefix-and-first-slash decoder: for
\* every input that starts with "mcpd://" and that it accepts, the server is
\* the text between the prefix and the first following "/", and the original
\* URI is everything after that "/", character for character.
C16_AgreesWithReferenceDecoder ==
    (/\ op = "resources/read"
     /\ StartsWith(rName, MCPD_PREFIX)
     /\ rOutcome.how # "decode")
        => LET rest == SubSeq(rName, Len(MCPD_PREFIX) + 1, Len(rName))
               slash == IF \E i \in DOMAIN rest : rest[i] = "/"
                        THEN CHOOSE i \in DOMAIN rest :
                                rest[i] = "/" /\ \A j \in 1..(i - 1) : rest[j] # "/"
                        ELSE 0
           IN  /\ slash # 0
               /\ rCalls[1].server = SubSeq(rest, 1, slash - 1)
               /\ rCalls[1].arg = SubSeq(rest, slash + 1, Len(rest))

\* C17: a tools/call whose name holds no "__" returns a format-error outcome
\* (error flag set, text carrying the invalid-name message) and invokes no
\* backend operation.
C17_BadToolNameContactsNoBackend ==
    (op = "tools/call" /\ FirstSeparator(rName) = 0) =>
        /\ pc = "returned"
        /\ rCalls = <<>>
        /\ resp.type = "result"
        /\ resp.isError = "true"
        /\ Len(resp.content) = 1
        /\ resp.content[1].type = "text"
        /\ resp.content[1].text.name = rName
        /\ resp.content[1].text.message
              = [text |-> "InvalidFormat", input |-> rName, type |-> "tool"]

C17_Witness ==
    /\ op = "tools/call" /\ pc = "returned"
    /\ rName = <<"a", "_", "a">>
    /\ rOutcome.how = "decode"
    /\ resp.isError = "true"
    /\ rCalls = <<>>

\* The diagnostic of each typed kind.
DiagnosticOf(kind) ==
    CASE kind = "ToolNotFoundError" -> "not found"
      [] kind = "ToolExecutionError" -> "execution failed"
      [] kind = "ServerNotFoundError" -> "not available"
      [] kind = "ServerUnhealthyError" -> "temporarily unavailable"
      [] kind = "ConnectionError" -> "cannot connect"
      [] kind = "AuthenticationError" -> "authentication failed"
      [] kind = "TimeoutError" -> "timed out"

ToolCallFailed == op = "tools/call" /\ rOutcome.how \in {"decode", "rejected"}

\* C18: error translation is total and kind-specific: a tool call that fails
\* with one of the seven typed kinds returns that kind's own diagnostic with
\* the error flag set, and a tool call that fails in any other way returns
\* the generic fallback diagnostic with the error flag set, carrying the raw
\* message of the failure when it is an Error.
C18_TranslationTotalAndKindSpecific ==
    ToolCallFailed =>
        /\ pc = "returned"
        /\ resp.type = "result"
        /\ resp.isError = "true"
        /\ Len(resp.content) = 1
        /\ IF rOutcome.value.class \in TypedErrorKinds
           THEN resp.content[1].text.template = DiagnosticOf(rOutcome.value.class)
           ELSE /\ resp.content[1].text.template = "error executing"
                /\ rOutcome.value.class = "Error"
                      => resp.content[1].text.message = rOutcome.value.message

FixedDiagnosticKinds == TypedErrorKinds \ {"ToolExecutionError"}

\* C19: diagnostics are fixed per kind: a tool call that fails with
\* ToolNotFound, ServerNotFound, ServerUnhealthy, ConnectionError,
\* AuthenticationError or TimeoutError gets the response that a call of the
\* same name failing with the same kind and any other backend message gets,
\* and no backend message is part of the response.
C19_DiagnosticsFixedPerKind ==
    (/\ op = "tools/call" /\ rOutcome.how = "rejected"
     /\ rOutcome.value.class \in FixedDiagnosticKinds)
        => /\ pc = "returned"
           /\ \A m \in Messages :
                 resp = TranslateToolError(rName,
                            [rOutcome.value EXCEPT !.message = [text |-> m]])
           /\ \A k \in DOMAIN resp.content :
                 "message" \notin DOMAIN resp.content[k].text

C19_Witness ==
    /\ op = "tools/call" /\ pc = "returned"
    /\ rOutcome.how = "rejected"
    /\ rOutcome.value.class = "ConnectionError"
    /\ rOutcome.value.message = [text |-> "m2"]
    /\ resp.isError = "true"

\* C20: a ToolExecutionError with nested field errors is translated into a
\* message that holds, for every nested error, a line with its location and
\* its message text, with the error flag set; without nested errors the
\* message has no validation-errors section.
C20_FieldErrorsAreReported ==
    (/\ op = "tools/call" /\ rOutcome.how = "rejected"
     /\ rOutcome.value.class = "ToolExecutionError")
        => LET nested == IF rOutcome.value.errors.given
                         THEN rOutcome.value.errors.list ELSE <<>>
               text == resp.content[1].text
           IN  /\ pc = "returned"
               /\ resp.isError = "true"
               /\ text.message = rOutcome.value.message
               /\ text.validationErrors = (Len(nested) > 0)
               /\ Len(text.details) = Len(nested)
               /\ \A i \in DOMAIN nested :
                     \E k \in DOMAIN text.details :
                        /\ \E p \in DOMAIN text.details[k] :
                              text.details[k][p] = nested[i].location
                        /\ \E p \in DOMAIN text.details[k] :
                              text.details[k][p] = nested[i].message

C20_Witness ==
    /\ op = "tools/call" /\ pc = "returned"
    /\ rOutcome.how = "rejected"
    /\ rOutcome.value.class = "ToolExecutionError"
    /\ rOutcome.value.errors.given
    /\ Len(rOutcome.value.errors.list) = 2
    /\ Len(resp.content[1].text.details) = 2

\* C21: ping calls getServerHealth once and returns the empty
\* acknowledgement exactly when that call succeeds; when the call throws,
\* ping fails with the error thrown, unchanged; ping fails in no other case.
C21_PingFailsOnlyWithDirectory ==
    op = "ping" =>
        /\ aDirCalls = [listServers |-> 0, getServerHealth |-> 1]
        /\ rCalls = <<>> /\ aCalls = <<>>
        /\ pc = "returned" <=> rOutcome.how = "resolved"
        /\ pc = "threw" <=> rOutcome.how = "rejected"
        /\ pc = "returned" => resp = [type |-> "result", ack |-> "{}"]
        /\ pc = "threw" => resp = [type |-> "exception", error |-> rOutcome.value]

C21_Witness ==
    /\ op = "ping" /\ pc = "threw"
    /\ rOutcome.how = "rejected"
    /\ rOutcome.value.class = "ConnectionError"
    /\ resp.error = rOutcome.value

\* The number of entries returned by the fulfilled calls before call i.
RECURSIVE EntriesBefore(_)
EntriesBefore(i) ==
    IF i <= 1 THEN 0
    ELSE EntriesBefore(i - 1)
         + (IF aCalls[i - 1].status = "fulfilled" THEN Len(aCalls[i - 1].value) ELSE 0)

AggregateReturned == op \in AggregateOps /\ pc = "returned"

\* C22: the order of the merged list is fixed: the calls are in the order of
\* the servers getHealthyServers returned, and entry j of the fulfilled call i
\* is at the position after all entries of the fulfilled calls before i and
\* the entries before j of call i, whatever the order the calls settled in.
C22_OrderIsDeterministic ==
    AggregateReturned =>
        /\ Len(aCalls) = Len(aHealthy)
        /\ \A i \in DOMAIN aCalls : aCalls[i].server = aHealthy[i]
        /\ \A e \in ReturnedEntries :
              /\ EntriesBefore(e[1]) + e[2] \in DOMAIN aResult
              /\ aResult[EntriesBefore(e[1]) + e[2]]
                    = ExpectedItem(aKind, aCalls[e[1]].server, aCalls[e[1]].value[e[2]])

\* Two servers, the first with two entries and the second with another one.
C22_Witness ==
    /\ AggregateReturned
    /\ Len(aCalls) = 2
    /\ aCalls[1].server # aCalls[2].server
    /\ aCalls[1].status = "fulfilled" /\ Len(aCalls[1].value) = 2
    /\ aCalls[1].value[1] # aCalls[1].value[2]
    /\ aCalls[2].status = "fulfilled" /\ Len(aCalls[2].value) = 1
    /\ Len(aResult) = 3
    /\ aResult[3].name = aCalls[2].server \o <<"_", "_">> \o aCalls[2].value[1].name

\* No call of the aggregation is pending, and the aggregation has its list.
JoinedAll ==
    /\ \A i \in DOMAIN aCalls : aCalls[i].status \in {"fulfilled", "rejected"}
    /\ resp.type = "result"

\* A step leaves every started call in place and every settled call as it is.
KeepsSettledCalls ==
    aCalls # <<>> =>
        /\ DOMAIN aCalls' = DOMAIN aCalls
        /\ \A i \in DOMAIN aCalls :
              /\ aCalls'[i].server = aCalls[i].server
              /\ aCalls[i].status # "pending" => aCalls'[i] = aCalls[i]

\* C23: join-all, never fail-fast: an aggregation returns only when every
\* call it started has settled, it does not fail once it has started its
\* calls, and no step (the rejection of another call included) cancels a
\* call or changes or drops the outcome of a call that has settled.
C23_JoinAllNeverFailFast ==
    /\ [](op \in AggregateOps =>
            /\ pc = "returned" => JoinedAll
            /\ pc = "threw" => aCalls = <<>>)
    /\ [][KeepsSettledCalls]_vars

\* One call was rejected; the other one was fulfilled and its entry returned.
C23_Witness ==
    /\ AggregateReturned
    /\ Len(aCalls) = 2
    /\ aCalls[1].status = "rejected"
    /\ aCalls[2].status = "fulfilled" /\ Len(aCalls[2].value) = 1
    /\ Len(aResult) = 1

\* The fields the aggregation of a kind replaces and the ones it adds.
ReplacedFields(kind) == IF kind = "resources" THEN {"name", "uri"} ELSE {"name"}
AddedFields(kind) == IF kind = "resources" THEN {"_serverName", "_originalUri"} ELSE {}

\* C24: aggregation changes only the namespaced fields: the aggregated item
\* of every entry a backend returned has the entry's fields (and, for a
\* resource, the two added ones), and every field other than `name` (and
\* `uri` for a resource) has the backend's value.
C24_OnlyNamespacedFieldsChange ==
    AggregateReturned =>
        \A e \in ReturnedEntries :
           LET item == aCalls[e[1]].value[e[2]]
               out == aResult[EntriesBefore(e[1]) + e[2]]
           IN  /\ DOMAIN out = DOMAIN item \cup AddedFields(aKind)
               /\ \A f \in DOMAIN item \ ReplacedFields(aKind) : out[f] = item[f]

\* A resource template with a description: the uriTemplate is kept too.
C24_Witness ==
    /\ AggregateReturned
    /\ aKind = "resourceTemplates"
    /\ Len(aCalls) = 1 /\ aCalls[1].status = "fulfilled"
    /\ Len(aCalls[1].value) = 1
    /\ aCalls[1].value[1].description = "d"
    /\ aResult[1].description = "d"
    /\ aResult[1].uri = aCalls[1].value[1].uri
    /\ aResult[1].name # aCalls[1].value[1].name

\* The aggregated resource of the codec run: server cServer lists a resource
\* whose uri is cLocal.
CodecResource ==
    NamespaceItem("resources", cServer,
                  [name |-> <<"b">>, uri |-> cLocal, description |-> ""])

\* C25: an aggregated resource carries its routing metadata consistently
\* with its uri: _serverName is the owning server, _originalUri the backend's
\* uri, uri is `mcpd://${_serverName}/${_originalUri}`, and parseResourceUri
\* of uri returns the server and original URI of the two auxiliary fields.
C25_MetadataAgreesWithDecoding ==
    (cKind = "uri" /\ cPc = "decoded") =>
        /\ CodecResource._serverName = cServer
        /\ CodecResource._originalUri = cLocal
        /\ CodecResource.uri
              = <<"m", "c", "p", "d", ":", "/", "/">> \o CodecResource._serverName
                  \o <<"/">> \o CodecResource._originalUri
        /\ cFull = CodecResource.uri
        /\ cOut = [ok |-> TRUE, server |-> CodecResource._serverName,
                   originalUri |-> CodecResource._originalUri]

\* The number of occurrences of the character ch in str.
RECURSIVE CountChar(_, _)
CountChar(ch, str) ==
    IF str = <<>> THEN 0
    ELSE (IF str[1] = ch THEN 1 ELSE 0) + CountChar(ch, Tail(str))

\* decodeURIComponent on the escapes of the model.
RECURSIVE Unescape(_)
Unescape(str) ==
    IF str = <<>> THEN <<>>
    ELSE IF str[1] = "%" /\ Len(str) >= 3
    THEN (CASE SubSeq(str, 2, 3) = <<"2", "F">> -> <<"/">>
            [] SubSeq(str, 2, 3) = <<"2", "0">> -> <<" ">>
            [] SubSeq(str, 2, 3) = <<"3", "F">> -> <<"?">>
            [] OTHER -> <<"%">>)
         \o Unescape(Drop(str, 4))
    ELSE <<str[1]>> \o Unescape(Tail(str))

PathBuilt == uPc = "done" /\ pFn \in PathBuilders

\* The path of the built URL (before "?") cut into its segments, and the
\* query after "?" if there is one.
BuiltSegments == Split(Split(pPath, <<"?">>)[1], <<"/">>)
BuiltCollection == IF pFn \in {"SERVER_RESOURCES", "RESOURCE_CONTENT"}
                   THEN <<"r", "e", "s", "o", "u", "r", "c", "e", "s">>
                   ELSE <<"p", "r", "o", "m", "p", "t", "s">>

\* C26: every API_PATHS builder encodes each argument as one component: no
\* "/", space or "?" of an argument appears raw, so the path always has the
\* segments "", api, v1, servers, <server>, resources|prompts and, for the
\* two-argument builders, one more segment or the one query parameter uri;
\* the server segment decodes to serverName and the last component to the
\* uri / promptName.
C26_ArgumentsAreSingleComponents ==
    PathBuilt =>
        /\ CountChar(" ", pPath) = 0
        /\ CountChar("?", pPath) = (IF pFn = "RESOURCE_CONTENT" THEN 1 ELSE 0)
        /\ Len(BuiltSegments)
              = (IF pFn \in {"SERVER_RESOURCES", "SERVER_PROMPTS"} THEN 6 ELSE 7)
        /\ SubSeq(BuiltSegments, 1, 4)
              = <<<<>>, <<"a", "p", "i">>, <<"v", "1">>,
                  <<"s", "e", "r", "v", "e", "r", "s">>>>
        /\ Unescape(BuiltSegments[5]) = pServerName
        /\ BuiltSegments[6] = BuiltCollection
        /\ pFn = "PROMPT_GET" => Unescape(BuiltSegments[7]) = pArg
        /\ pFn = "RESOURCE_CONTENT" =>
              /\ BuiltSegments[7] = <<"c", "o", "n", "t", "e", "n", "t">>
              /\ Len(Split(pPath, <<"?">>)) = 2
              /\ StartsWith(Split(pPath, <<"?">>)[2], <<"u", "r", "i", "=">>)
              /\ CountChar("/", Split(pPath, <<"?">>)[2]) = 0
              /\ Unescape(Drop(Split(pPath, <<"?">>)[2], 5)) = pArg

\* A server name and a URI that both hold "/" and a further escaped
\* character have been built into a content path.
C26_Witness ==
    /\ PathBuilt /\ pFn = "RESOURCE_CONTENT"
    /\ pServerName = <<"a", "/">> /\ pArg = <<"?", "/">>
    /\ pPath = SERVERS_BASE \o <<"/", "a", "%", "2", "F">> \o RESOURCES
                 \o CONTENT_URI \o <<"%", "3", "F", "%", "2", "F">>

ConfigLoaded == uPc = "done" /\ pFn = "loadConfig"

\* C27 (as stated): mcpdAddr is MCPD_ADDR whenever it is set and
\* http://localhost:8090 when it is unset; mcpdApiKey is MCPD_API_KEY exactly
\* as given (undefined when unset, "" when set to "").
C27_ConfigFromEnvironment ==
    ConfigLoaded =>
        /\ config.mcpdAddr = (IF env.MCPD_ADDR.set THEN env.MCPD_ADDR.value
                              ELSE "http://localhost:8090")
        /\ config.mcpdApiKey = env.MCPD_API_KEY

\* C27 (amended): mcpdAddr is MCPD_ADDR when it is set to a non-empty string
\* and http://localhost:8090 when it is unset or set to the empty string;
\* mcpdApiKey is MCPD_API_KEY exactly as given (undefined when unset, ""
\* when set to "").
C27_ConfigFromEnvironmentAmended ==
    ConfigLoaded =>
        /\ config.mcpdAddr
              = (IF env.MCPD_ADDR.set /\ env.MCPD_ADDR.value # ""
                 THEN env.MCPD_ADDR.value ELSE "http://localhost:8090")
        /\ config.mcpdApiKey = env.MCPD_API_KEY

\* loadConfig ran with MCPD_ADDR and MCPD_API_KEY both set to "".
C27_Witness ==
    /\ ConfigLoaded
    /\ env.MCPD_ADDR = [set |-> TRUE, value |-> ""]
    /\ env.MCPD_API_KEY = [set |-> TRUE, value |-> ""]
    /\ config = [mcpdAddr |-> "http://localhost:8090",
                 mcpdApiKey |-> [set |-> TRUE, value |-> ""]]

\* The health snapshot says "ok" for the server.
OkInSnapshot(name) == name \in DOMAIN aHealthMap /\ aHealthMap[name] = "ok"

\* While the backend calls are in flight, a step makes no Directory call and
\* leaves the snapshot and the servers taken from it as they are.
KeepsSnapshot ==
    pc = "allSettled" =>
        /\ aDirCalls' = aDirCalls
        /\ aHealthMap' = aHealthMap
        /\ aHealthy' = aHealthy

\* C28: an aggregation calls getServerHealth exactly once (and listServers
\* at most once), a failed call is not repeated, the servers it calls are
\* exactly the candidates the one snapshot reports "ok", a candidate without
\* an entry being left out, and nothing is fetched or re-judged while the
\* backend calls are in flight.
C28_SingleHealthSnapshot ==
    /\ [](op \in AggregateOps =>
            /\ aDirCalls.getServerHealth <= 1
            /\ aDirCalls.listServers = (IF aExplicit.given \/ pc = "idle" THEN 0 ELSE 1)
            /\ pc \in {"allSettled", "returned"} =>
                  /\ aDirCalls.getServerHealth = 1
                  /\ \A i \in DOMAIN aCalls : OkInSnapshot(aCalls[i].server)
                  /\ \A j \in DOMAIN aServers :
                        OkInSnapshot(aServers[j])
                            => \E i \in DOMAIN aCalls : aCalls[i].server = aServers[j]
            /\ aDirFailed = "getServerHealth" =>
                  /\ aDirCalls.getServerHealth = 1
                  /\ pc = "threw" /\ aCalls = <<>>)
    /\ [][KeepsSnapshot]_vars

\* Two candidates, the second without an entry in the snapshot: only the
\* first one was called, after one getServerHealth.
C28_Witness ==
    /\ AggregateReturned
    /\ Len(aServers) = 2
    /\ aServers[2] \notin DOMAIN aHealthMap
    /\ Len(aCalls) = 1 /\ aCalls[1].server = aServers[1]
    /\ aCalls[1].status = "fulfilled"
    /\ aDirCalls.getServerHealth = 1

\* The step that ends getHealthyServers starts one call per healthy server,
\* all pending; no later step starts a call.
StartsEveryCallAtOnce ==
    /\ (pc = "getServerHealth" /\ pc' = "allSettled") =>
          /\ DOMAIN aCalls' = DOMAIN aHealthy'
          /\ \A i \in DOMAIN aCalls' :
                /\ aCalls'[i].server = aHealthy'[i]
                /\ aCalls'[i].status = "pending"
    /\ pc = "allSettled" => DOMAIN aCalls' = DOMAIN aCalls

\* C29: fan-out is concurrent: the aggregation starts the call of every
\* eligible server in one step, before it waits for any of them, so whenever
\* it waits, whatever calls are still pending, the call of every eligible
\* server has been started.
C29_FanOutIsConcurrent ==
    /\ []((op \in AggregateOps /\ pc = "allSettled") =>
            /\ Len(aCalls) = Len(aHealthy)
            /\ \A i \in DOMAIN aCalls : aCalls[i].server = aHealthy[i])
    /\ [][StartsEveryCallAtOnce]_vars

\* The second server has answered while the first server's call is pending.
C29_Witness ==
    /\ op \in AggregateOps /\ pc = "allSettled"
    /\ Len(aHealthy) = 2 /\ Len(aCalls) = 2
    /\ aCalls[1].status = "pending"
    /\ aCalls[2].status = "fulfilled"

\* The aggregation leaves its join only when no call is pending.
LeavesJoinAfterSlowestCall ==
    (pc = "allSettled" /\ pc' # "allSettled") =>
        /\ \A i \in DOMAIN aCalls : aCalls[i].status # "pending"
        /\ aCalls' = aCalls

\* C30: under fair collaborators an aggregation that was called eventually
\* returns or fails, and it leaves the join only after the last of its calls
\* has settled.
C30_TerminatesAfterSlowestCall ==
    /\ (op \in AggregateOps) ~> (pc \in {"returned", "threw"})
    /\ [][LeavesJoinAfterSlowestCall]_vars

\* An aggregation over two servers has returned after the first listed
\* nothing and the second failed.
C30_Witness ==
    /\ AggregateReturned
    /\ Len(aCalls) = 2
    /\ aCalls[1].status = "fulfilled" /\ aCalls[1].value = <<>>
    /\ aCalls[2].status = "rejected"
    /\ aResult = <<>>

ConcFinished(q) == slots[q].pc \in {"returned", "threw"}

\* What the Directory and the backends answered to the calls of request q,
\* with the request itself.
OwnExchange(q) ==
    [op |-> slots[q].op, name |-> slots[q].name, servers |-> slots[q].servers,
     health |-> slots[q].health, calls |-> slots[q].calls,
     outcome |-> slots[q].outcome]

\* The servers of q's own list that q's own health map reports "ok".
OwnEligible(q) ==
    LET Ok(n) == n \in DOMAIN slots[q].health /\ slots[q].health[n] = "ok"
    IN  SelectSeq(slots[q].servers, Ok)

\* A step of one request leaves the other requests as they are.
TouchesOneRequest ==
    \A q \in Requests :
        slots'[q] # slots[q] => \A p \in Requests \ {q} : slots'[p] = slots[p]

\* C31: requests are independent: in every interleaving of two requests
\* (one after the other included) a step of one request changes nothing of
\* the other, a list request calls exactly the servers that its own health
\* map reports "ok" in its own server list, and two finished requests with
\* the same request and the same answers to their own calls have the same
\* result.
C31_RequestsAreIndependent ==
    /\ [](\A q \in Requests :
            /\ (slots[q].op = "tools/list" /\ slots[q].pc \in {"allSettled", "returned"}) =>
                  /\ Len(slots[q].calls) = Len(OwnEligible(q))
                  /\ \A i \in DOMAIN slots[q].calls :
                        slots[q].calls[i].server = OwnEligible(q)[i]
            /\ \A p \in Requests :
                  (ConcFinished(q) /\ ConcFinished(p) /\ OwnExchange(q) = OwnExchange(p))
                      => slots[q].resp = slots[p].resp)
    /\ [][TouchesOneRequest]_vars

\* A tools/list whose snapshot reports the server "ok" has returned its tool
\* while another tools/list, whose snapshot reports the same server as timed
\* out, is in flight.
C31_Witness ==
    /\ slots[1].op = "tools/list" /\ slots[1].pc = "allSettled"
    /\ slots[1].servers = <<<<"a">>>> /\ slots[1].health = (<<"a">> :> "timeout")
    /\ slots[2].op = "tools/list" /\ slots[2].pc = "returned"
    /\ slots[2].servers = <<<<"a">>>> /\ slots[2].health = (<<"a">> :> "ok")
    /\ Len(slots[2].resp.items) = 1

\* C32: resources/read calls readResource once, on the server parseResourceUri
\* decoded and with the originalUri it decoded, calls nothing when decoding
\* fails, and returns the list the backend resolved with as `contents`, the
\* same entries (text and binary) in the same order and nothing else.
C32_ReadResourceForwardsAndReturns ==
    op = "resources/read" =>
        LET parsed == parseResourceUri(rName)
        IN  /\ parsed.ok =>
                  rCalls = <<[server |-> parsed.server, method |-> "readResource",
                              arg |-> parsed.originalUri, args |-> "none"]>>
            /\ ~parsed.ok => rCalls = <<>>
            /\ pc = "returned" =>
                  /\ rOutcome.how = "resolved"
                  /\ resp = [type |-> "result", contents |-> rOutcome.value]

\* mcpd://a/aa was read from server "a" as "aa"; the backend's text entry and
\* binary entry are the response.
C32_Witness ==
    /\ op = "resources/read" /\ pc = "returned"
    /\ rName = MCPD_PREFIX \o <<"a", "/", "a", "a">>
    /\ rCalls[1].server = <<"a">> /\ rCalls[1].arg = <<"a", "a">>
    /\ Len(resp.contents) = 2
    /\ "text" \in DOMAIN resp.contents[1]
    /\ "blob" \in DOMAIN resp.contents[2]

\* C33: prompts/get calls generatePrompt once, on the server parsePrefixedName
\* decoded, with the local name it decoded and the request's arguments, calls
\* nothing when decoding fails, and returns the backend's description with
\* the backend's messages, or with the empty sequence when the result has no
\* messages.
C33_GetPromptForwardsAndDefaults ==
    op = "prompts/get" =>
        LET parsed == parsePrefixedName(rName, "prompt")
        IN  /\ parsed.ok =>
                  rCalls = <<[server |-> parsed.server, method |-> "generatePrompt",
                              arg |-> parsed.name, args |-> rArgs]>>
            /\ ~parsed.ok => rCalls = <<>>
            /\ pc = "returned" =>
                  /\ rOutcome.how = "resolved"
                  /\ resp.type = "result"
                  /\ resp.description = rOutcome.value.description
                  /\ rOutcome.value.hasMessages => resp.messages = rOutcome.value.messages
                  /\ ~rOutcome.value.hasMessages => resp.messages = <<>>

\* The prompt "a__b" was generated by server "a" as "b"; the result had no
\* messages and the response has the empty sequence.
C33_Witness ==
    /\ op = "prompts/get" /\ pc = "returned"
    /\ rName = <<"a", "_", "_", "b">>
    /\ rCalls[1].server = <<"a">> /\ rCalls[1].arg = <<"b">>
    /\ ~rOutcome.value.hasMessages
    /\ resp.description = "d" /\ resp.messages = <<>>

\* The number of entries of a list that name the server, and of calls to it.
EntriesNaming(list, name) == Cardinality({i \in DOMAIN list : list[i] = name})
CallsTo(name) == Cardinality({i \in DOMAIN aCalls : aCalls[i].server = name})

CallsIssued == op \in AggregateOps /\ pc \in {"allSettled", "returned"}

\* The calls are one per entry of the list getHealthyServers returned, each
\* to a candidate the health map reports "ok", and every such candidate has
\* a call.
CallsAreTheEligibleEntries ==
    /\ Len(aCalls) = Len(aHealthy)
    /\ \A i \in DOMAIN aCalls :
          /\ aCalls[i].server = aHealthy[i]
          /\ OkInSnapshot(aCalls[i].server)
          /\ \E j \in DOMAIN aServers : aServers[j] = aCalls[i].server
    /\ \A j \in DOMAIN aServers :
          OkInSnapshot(aServers[j]) => CallsTo(aServers[j]) >= 1

\* C34 (as stated): the calls of an aggregation are exactly one per server
\* getHealthyServers returned: no server that is not "ok", that has no entry
\* in the health map or that is no candidate is called, no eligible server is
\* skipped, and no server is called twice.
C34_OneCallPerEligibleServer ==
    CallsIssued =>
        /\ CallsAreTheEligibleEntries
        /\ \A n \in ServerIds : CallsTo(n) <= 1

\* C34 (amended): the calls of an aggregation are exactly one per entry of
\* the list getHealthyServers returned: no server that is not "ok", that has
\* no entry in the health map or that is no candidate is called, no eligible
\* candidate is skipped, and a server is called as many times as the
\* candidate list names it (once for a listServers result, more than once
\* only for serverNames that repeat it).
C34_OneCallPerEligibleEntry ==
    CallsIssued =>
        /\ CallsAreTheEligibleEntries
        /\ \A n \in ServerIds :
              CallsTo(n) = (IF OkInSnapshot(n) THEN EntriesNaming(aServers, n) ELSE 0)
        /\ ~aExplicit.given => \A n \in ServerIds : CallsTo(n) <= 1

\* serverNames names one server twice and another that has no health entry:
\* the first is called twice, the other not at all.
C34_Witness ==
    /\ CallsIssued /\ aExplicit.given
    /\ Len(aServers) = 2 /\ aServers[1] = aServers[2]
    /\ OkInSnapshot(aServers[1])
    /\ Len(aCalls) = 2
    /\ aCalls[1].server = aServers[1] /\ aCalls[2].server = aServers[1]

\* A step invokes no backend operation once the request has invoked one.
NoSecondBackendCall == rCalls # <<>> => rCalls' = rCalls

\* C35: a tools/call, resources/read or prompts/get request invokes at most
\* one backend operation: none when decoding the name or URI fails, one
\* otherwise; the request ends when that call is rejected, and no step
\* invokes a second one.
C35_AtMostOneBackendCall ==
    /\ [](op \in SingleTargetOps =>
            /\ Len(rCalls) <= 1
            /\ rOutcome.how = "decode" => rCalls = <<>> /\ pc \in {"returned", "threw"}
            /\ rOutcome.how = "rejected" => Len(rCalls) = 1 /\ pc \in {"returned", "threw"})
    /\ [][NoSecondBackendCall]_vars

\* A callTool was rejected; the request has ended with its error payload and
\* one call.
C35_Witness ==
    /\ op = "tools/call" /\ pc = "returned"
    /\ rOutcome.how = "rejected"
    /\ Len(rCalls) = 1
    /\ resp.isError = "true"

\* The name or URI of the request is one its decoder accepts.
WellFormedTarget ==
    IF op = "resources/read" THEN parseResourceUri(rName).ok
    ELSE parsePrefixedName(rName, "tool").ok

\* C36: tools/call, resources/read and prompts/get route by name alone: they
\* call neither listServers nor getServerHealth and hold no server list or
\* health map, and every well-formed name or URI is forwarded to the backend
\* of the server it names, a server the Directory does not know and a name
\* no list response holds included.
C36_RoutesByNameAlone ==
    op \in SingleTargetOps =>
        /\ aDirCalls = [listServers |-> 0, getServerHealth |-> 0]
        /\ aServers = <<>> /\ aHealthMap = NoHealthMap /\ aHealthy = <<>>
        /\ aDirFailed = "none"
        /\ WellFormedTarget =>
              /\ Len(rCalls) = 1
              /\ rCalls[1].server
                    = (IF op = "resources/read" THEN parseResourceUri(rName).server
                       ELSE parsePrefixedName(rName, "tool").server)

\* mcpd://aa/a is read from "aa", which is no server of the Directory.
C36_Witness ==
    /\ op = "resources/read" /\ pc = "returned"
    /\ rName = MCPD_PREFIX \o <<"a", "a", "/", "a">>
    /\ Len(rCalls) = 1
    /\ rCalls[1].server = <<"a", "a">> /\ rCalls[1].server \notin ServerIds
    /\ aDirCalls = [listServers |-> 0, getServerHealth |-> 0]

\* C37: parsePrefixedName fails exactly for the names without "__": a
\* tools/call or prompts/get whose name holds "__" calls the backend, with an
\* empty server for "__x" and an empty local name for "a__", and one whose
\* name holds none fails with the format error and calls nothing.
C37_FailsOnlyWithoutSeparator ==
    op \in NameOps =>
        /\ FirstSeparator(rName) # 0 =>
              /\ Len(rCalls) = 1
              /\ rCalls[1].server = SubSeq(rName, 1, FirstSeparator(rName) - 1)
              /\ rCalls[1].arg = SubSeq(rName, FirstSeparator(rName) + 2, Len(rName))
              /\ rOutcome.how # "decode"
        /\ FirstSeparator(rName) = 0 =>
              /\ rCalls = <<>>
              /\ rOutcome.how = "decode"
              /\ rOutcome.value.message.text = "InvalidFormat"

\* "__a" was decoded to the empty server and "a": generatePrompt is called.
C37_Witness ==
    /\ op = "prompts/get" /\ pc = "backend"
    /\ rName = <<"_", "_", "a">>
    /\ Len(rCalls) = 1
    /\ rCalls[1].server = <<>> /\ rCalls[1].arg = <<"a">>

=============================================================================
